---- MODULE Spec2Model ----
(***************************************************************************)
(* baqup: the label compiler (src/src/models.py) and the container         *)
(* discovery facade (src/src/discovery.py).                                *)
(*                                                                         *)
(* Strings.  A Python string is modelled as the sequence of its atoms; the *)
(* string is the concatenation of the atoms in order.  An atom is either a *)
(* single character ("." "/" "-" "+" " " "_" and the digits) or a word     *)
(* that the code never looks inside ("backup", "cron", "invalid", ...), so *)
(* startswith, split("."), slicing, lower() and int() are computed on the  *)
(* sequence exactly as Python computes them on the characters.             *)
(* Python's None is the one-atom sequence None, which is no string.        *)
(***************************************************************************)
EXTENDS Integers, Sequences, FiniteSets, TLC

None == <<"<None>">>

Dot == <<".">>

(* str.startswith *)
StartsWith(s, p) == Len(s) >= Len(p) /\ SubSeq(s, 1, Len(p)) = p

(* s[n:] *)
SliceFrom(s, n) == SubSeq(s, n + 1, Len(s))

(* str.split("."): the pieces between the dots, empty pieces included *)
RECURSIVE SplitAcc(_, _, _, _)
SplitAcc(s, i, cur, acc) ==
    IF i > Len(s) THEN Append(acc, cur)
    ELSE IF s[i] = "." THEN SplitAcc(s, i + 1, <<>>, Append(acc, cur))
    ELSE SplitAcc(s, i + 1, Append(cur, s[i]), acc)

Split(s) == SplitAcc(s, 1, <<>>, <<>>)

(* the text of a string: its atoms joined *)
RECURSIVE Flat(_)
Flat(s) == IF s = <<>> THEN "" ELSE s[1] \o Flat(Tail(s))

(* str.lower of one character; characters outside A-Z are left as they are *)
LowerChar(c) ==
    CASE c = "A" -> "a" [] c = "B" -> "b" [] c = "C" -> "c" [] c = "D" -> "d"
      [] c = "E" -> "e" [] c = "F" -> "f" [] c = "G" -> "g" [] c = "H" -> "h"
      [] c = "I" -> "i" [] c = "J" -> "j" [] c = "K" -> "k" [] c = "L" -> "l"
      [] c = "M" -> "m" [] c = "N" -> "n" [] c = "O" -> "o" [] c = "P" -> "p"
      [] c = "Q" -> "q" [] c = "R" -> "r" [] c = "S" -> "s" [] c = "T" -> "t"
      [] c = "U" -> "u" [] c = "V" -> "v" [] c = "W" -> "w" [] c = "X" -> "x"
      [] c = "Y" -> "y" [] c = "Z" -> "z"
      [] OTHER -> c

(* str.lower of an atom, character by character *)
RECURSIVE LowerAtom(_)
LowerAtom(a) ==
    IF a = "" THEN ""
    ELSE LowerChar(SubSeq(a, 1, 1)) \o LowerAtom(SubSeq(a, 2, Len(a)))

(* str.lower *)
Lower(s) == [i \in 1..Len(s) |-> LowerAtom(s[i])]

(* str.lstrip("/"): every leading "/" is removed *)
RECURSIVE LStripSlash(_)
LStripSlash(s) ==
    IF s # <<>> /\ s[1] = "/" THEN LStripSlash(Tail(s)) ELSE s

(***************************************************************************)
(* int(str) of Python: surrounding whitespace is stripped, one leading     *)
(* sign "+" or "-" is accepted, then decimal digits, where single          *)
(* underscores may stand between two digits.  Anything else is ValueError; *)
(* int(None) is TypeError.                                                 *)
(***************************************************************************)
Digits == {"0", "1", "2", "3", "4", "5", "6", "7", "8", "9"}

DigitVal(a) ==
    CASE a = "0" -> 0 [] a = "1" -> 1 [] a = "2" -> 2 [] a = "3" -> 3
      [] a = "4" -> 4 [] a = "5" -> 5 [] a = "6" -> 6 [] a = "7" -> 7
      [] a = "8" -> 8 [] a = "9" -> 9

(* The characters int() skips around a number, among those a string of    *)
(* the module can hold (code points up to 255): tab, newline, vertical     *)
(* tab, form feed, carriage return, space, next line (133) and no-break    *)
(* space (160).  The separators 28 to 31 are not skipped: int() raises     *)
(* ValueError on them.  The last three members are the raw characters      *)
(* vertical tab, next line and no-break space.                             *)
Whitespace == {" ", "\t", "\n", "\r", "\f", "", "", " "}

(* the characters of a string, one by one, however its atoms are cut *)
RECURSIVE CharsOf(_)
CharsOf(t) == IF t = "" THEN <<>> ELSE <<SubSeq(t, 1, 1)>> \o CharsOf(SubSeq(t, 2, Len(t)))

Chars(s) == CharsOf(Flat(s))

(* an atom made of whitespace characters only *)
IsSpace(a) == a # "" /\ \A i \in 1..Len(a) : SubSeq(a, i, i) \in Whitespace

(* the whitespace int() skips before and after the number *)
RECURSIVE StripLeft(_)
StripLeft(s) == IF s # <<>> /\ IsSpace(s[1]) THEN StripLeft(Tail(s)) ELSE s

RECURSIVE StripRight(_)
StripRight(s) ==
    IF s # <<>> /\ IsSpace(s[Len(s)]) THEN StripRight(SubSeq(s, 1, Len(s) - 1)) ELSE s

(* the digits part: ok iff digit (("_")? digit)*; val is its decimal value *)
RECURSIVE ScanDigits(_, _, _, _)
ScanDigits(s, i, acc, prevDigit) ==
    IF i > Len(s) THEN [ok |-> prevDigit, val |-> acc]
    ELSE IF s[i] \in Digits THEN ScanDigits(s, i + 1, acc * 10 + DigitVal(s[i]), TRUE)
    ELSE IF s[i] = "_" /\ prevDigit /\ i < Len(s) /\ s[i + 1] \in Digits
         THEN ScanDigits(s, i + 1, acc, FALSE)
    ELSE [ok |-> FALSE, val |-> 0]

PyInt(value) ==
    IF value = None THEN [err |-> "TypeError", val |-> 0]
    ELSE LET valued(neg, d) ==
                 IF d.ok THEN [err |-> "none", val |-> IF neg THEN 0 - d.val ELSE d.val]
                 ELSE [err |-> "ValueError", val |-> 0]
             signed(t) ==
                 valued(t # <<>> /\ t[1] = "-",
                        ScanDigits(IF t # <<>> /\ t[1] \in {"-", "+"} THEN Tail(t) ELSE t,
                                   1, 0, FALSE))
         IN signed(StripRight(StripLeft(Chars(value))))

(* an optional string inside an f-string: None is written "None" *)
Format(s) == IF s = None THEN <<"None">> ELSE s

(* x is None, for a value x of any kind *)
IsNone(x) == ToString(x) = ToString(None)

(* x or default: None and the empty str, dict or list are falsy *)
OrElse(x, default) == IF IsNone(x) \/ x = <<>> THEN default ELSE x

(* truthiness of an optional string: None and "" are falsy *)
Truthy(s) == s # None /\ s # <<>>

(***************************************************************************)
(* A label mapping is a Python dict: a sequence of entries [k, v] with     *)
(* pairwise distinct keys, in insertion order.                             *)
(***************************************************************************)
Keys(labels) == {labels[i].k : i \in 1..Len(labels)}

HasKey(labels, key) == key \in Keys(labels)

(* dict.get(key, default) *)
Get(labels, key, default) ==
    IF HasKey(labels, key)
    THEN (CHOOSE e \in {labels[i] : i \in 1..Len(labels)} : e.k = key).v
    ELSE default

(* models.py:13-16 *)
DATABASE_TYPES ==
    {<<"postgres">>, <<"mariadb">>, <<"mysql">>, <<"mongo">>, <<"redis">>, <<"sqlite">>}

TARGET_TYPES == DATABASE_TYPES \cup {<<"fs">>}

(* _parse_bool that compares without lower() *)
_parse_bool_caseSensitive(value) ==
    IF value = None THEN FALSE
    ELSE Flat(value) \in {"true", "1", "yes", "on"}

(* models.py:243-247 *)
_parse_bool(value) ==
    IF value = None THEN FALSE
    ELSE Flat(Lower(value)) \in {"true", "1", "yes", "on"}

(***************************************************************************)
(* A typed property value: an integer, a boolean or a string.              *)
(***************************************************************************)
IntV(n) == [t |-> "int", i |-> n, b |-> FALSE, s |-> <<>>]
BoolV(x) == [t |-> "bool", i |-> 0, b |-> x, s |-> <<>>]
StrV(x) == [t |-> "str", i |-> 0, b |-> FALSE, s |-> x]
NoneV == [t |-> "none", i |-> 0, b |-> FALSE, s |-> <<>>]

(* the Python value that a typed value stands for *)
Untag(v) ==
    CASE v.t = "int" -> v.i
      [] v.t = "bool" -> v.b
      [] v.t = "none" -> None
      [] OTHER -> v.s

(* models.py:250-265; err is the exception that escapes, "none" if none *)
_parse_label_value(value) ==
    LET typed(n) ==
            IF n.err = "TypeError" THEN [err |-> "TypeError", val |-> StrV(<<>>)]
            ELSE IF n.err = "none" THEN [err |-> "none", val |-> IntV(n.val)]
            ELSE IF Flat(Lower(value)) \in {"true", "false", "yes", "no", "on", "off"}
                 THEN [err |-> "none", val |-> BoolV(_parse_bool(value))]
            ELSE [err |-> "none", val |-> StrV(value)]
    IN typed(PyInt(value))

(***************************************************************************)
(* A Python dict keyed by strings whose order never matters (schedules,    *)
(* properties) is a function on the set of its keys.  An optional dict     *)
(* argument is [some, d]: some = FALSE is None.                            *)
(***************************************************************************)
EmptyDict == [n \in {} |-> 0]

NoDict == [some |-> FALSE, d |-> EmptyDict]

SomeDict(d) == [some |-> TRUE, d |-> d]

(* `x or y` on an optional dict: None and the empty dict are falsy *)
DictOr(opt, other) == IF opt.some /\ DOMAIN opt.d # {} THEN opt.d ELSE other

(* models.py:36-42 *)
ScheduleConfig(name, cron, retention) ==
    [name |-> name, cron |-> cron, retention |-> retention]

(* models.py:44-72, prefix = "backup.schedule"; isNone is the None result *)
ScheduleConfig_from_labels(name, labels) ==
    LET prefix == <<"backup", ".", "schedule">>
        cron_key == prefix \o Dot \o Format(name) \o <<".", "cron">>
        retention_key == prefix \o Dot \o Format(name) \o <<".", "retention">>
        int_or_7(parsed) == IF parsed.err = "none" THEN parsed.val ELSE 7
        retention(retention_str) ==
            IF Truthy(retention_str) THEN int_or_7(PyInt(retention_str)) ELSE 7
        build(cron) ==
            IF cron = None
            THEN [isNone |-> TRUE, sc |-> ScheduleConfig(name, <<>>, 0)]
            ELSE [isNone |-> FALSE,
                  sc |-> ScheduleConfig(name, cron,
                                        retention(Get(labels, retention_key, None)))]
    IN build(Get(labels, cron_key, None))

(* models.py:277-283: the schedule names referenced in labels *)
schedule_names(labels) ==
    {Split(key)[3] : key \in {k \in Keys(labels) :
        StartsWith(k, <<"backup", ".", "schedule", ".">>) /\ Len(Split(k)) >= 4}}

(* _parse_schedules where a default replaces a same-named label schedule *)
_parse_schedules_defaultsWin(labels, default_schedules) ==
    LET fromLabels == {n \in schedule_names(labels) :
                          ~ScheduleConfig_from_labels(n, labels).isNone}
    IN [n \in fromLabels \cup DOMAIN default_schedules |->
          IF n \in DOMAIN default_schedules THEN default_schedules[n]
          ELSE ScheduleConfig_from_labels(n, labels).sc]

(* models.py:268-296 *)
_parse_schedules(labels, default_schedules) ==
    LET merged(parsed) ==
            [n \in {m \in DOMAIN parsed : ~parsed[m].isNone} \cup DOMAIN default_schedules |->
                IF n \in DOMAIN parsed /\ ~parsed[n].isNone THEN parsed[n].sc
                ELSE default_schedules[n]]
    IN merged([n \in schedule_names(labels) |-> ScheduleConfig_from_labels(n, labels)])

(* TargetConfig.from_labels that also stores the reserved suffixes schedule *)
(* and compress as properties                                              *)
TargetConfig_from_labels_keepReserved(target_type, instance, labels, default_schedule, default_compress) ==
    LET prefix == <<"backup", ".">> \o Format(target_type) \o Dot \o Format(instance)
        idx == {i \in 1..Len(labels) : StartsWith(labels[i].k, prefix \o Dot)}
        raised == \E i \in idx : _parse_label_value(labels[i].v).err # "none"
        compress_str == Get(labels, prefix \o <<".", "compress">>, None)
    IN [err |-> IF raised THEN "TypeError"
                ELSE IF target_type \notin TARGET_TYPES THEN "ValueError"
                ELSE "none",
        type |-> target_type,
        instance |-> instance,
        schedule |-> Get(labels, prefix \o <<".", "schedule">>, default_schedule),
        compress |-> IF Truthy(compress_str) THEN _parse_bool(compress_str)
                     ELSE default_compress,
        properties |-> IF raised THEN EmptyDict
                       ELSE [p \in {SliceFrom(labels[i].k, Len(prefix) + 1) : i \in idx} |->
                                _parse_label_value(Get(labels, prefix \o Dot \o p, None)).val]]

(* TargetConfig.from_labels with the prefix backup.<type>, the instance     *)
(* left out                                                                *)
TargetConfig_from_labels_typePrefix(target_type, instance, labels, default_schedule, default_compress) ==
    LET prefix == <<"backup", ".">> \o Format(target_type)
        idx == {i \in 1..Len(labels) :
                   /\ StartsWith(labels[i].k, prefix \o Dot)
                   /\ SliceFrom(labels[i].k, Len(prefix) + 1)
                          \notin {<<"schedule">>, <<"compress">>}}
        raised == \E i \in idx : _parse_label_value(labels[i].v).err # "none"
        compress_str == Get(labels, prefix \o <<".", "compress">>, None)
    IN [err |-> IF raised THEN "TypeError"
                ELSE IF target_type \notin TARGET_TYPES THEN "ValueError"
                ELSE "none",
        type |-> target_type,
        instance |-> instance,
        schedule |-> Get(labels, prefix \o <<".", "schedule">>, default_schedule),
        compress |-> IF Truthy(compress_str) THEN _parse_bool(compress_str)
                     ELSE default_compress,
        properties |-> IF raised THEN EmptyDict
                       ELSE [p \in {SliceFrom(labels[i].k, Len(prefix) + 1) : i \in idx} |->
                                _parse_label_value(Get(labels, prefix \o Dot \o p, None)).val]]

(***************************************************************************)
(* models.py:90-133 with the validation of models.py:85-88.  err is the    *)
(* exception that escapes: TypeError from coercing a None value,           *)
(* ValueError from an unknown type.                                        *)
(***************************************************************************)
TargetConfig_from_labels(target_type, instance, labels, default_schedule, default_compress) ==
    LET prefix == <<"backup", ".">> \o Format(target_type) \o Dot \o Format(instance)
        idx == {i \in 1..Len(labels) :
                   /\ StartsWith(labels[i].k, prefix \o Dot)
                   /\ SliceFrom(labels[i].k, Len(prefix) + 1)
                          \notin {<<"schedule">>, <<"compress">>}}
        names == {SliceFrom(labels[i].k, Len(prefix) + 1) : i \in idx}
        valueOf(p) == Get(labels, prefix \o Dot \o p, None)
        compress(compress_str) ==
            IF Truthy(compress_str) THEN _parse_bool(compress_str) ELSE default_compress
        build(raised) ==
            [err |-> IF raised THEN "TypeError"
                     ELSE IF target_type \notin TARGET_TYPES THEN "ValueError"
                     ELSE "none",
             type |-> target_type,
             instance |-> instance,
             schedule |-> Get(labels, prefix \o <<".", "schedule">>, default_schedule),
             compress |-> compress(Get(labels, prefix \o <<".", "compress">>, None)),
             properties |-> IF raised THEN EmptyDict
                            ELSE [p \in names |-> _parse_label_value(valueOf(p)).val]]
    IN build(\E i \in idx : _parse_label_value(labels[i].v).err # "none")

(* the constructor without __post_init__ *)
TargetConfig_unvalidated(type, instance, schedule, compress) ==
    [err |-> "none",
     type |-> type, instance |-> instance, schedule |-> schedule, compress |-> compress,
     properties |-> EmptyDict]

(* models.py:75-88: TargetConfig(type, instance, schedule, compress); the  *)
(* generated __init__ assigns the fields and __post_init__ validates type  *)
TargetConfig(type, instance, schedule, compress) ==
    [err |-> IF type \notin TARGET_TYPES THEN "ValueError" ELSE "none",
     type |-> type, instance |-> instance, schedule |-> schedule, compress |-> compress,
     properties |-> EmptyDict]

(* the loop without the test of the type against TARGET_TYPES *)
RECURSIVE ParseTargetsFrom_noTypeCheck(_, _, _, _, _, _)
ParseTargetsFrom_noTypeCheck(labels, i, seen, targets, default_schedule, default_compress) ==
    IF i > Len(labels) THEN [err |-> "none", targets |-> targets]
    ELSE LET parts == Split(labels[i].k)
             target == TargetConfig_from_labels(parts[2], parts[3], labels,
                           default_schedule, default_compress)
         IN IF \/ ~StartsWith(labels[i].k, <<"backup", ".">>)
               \/ Len(parts) < 4
               \/ parts[2] \in {<<"enabled">>, <<"stop">>, <<"schedule">>}
               \/ <<parts[2], parts[3]>> \in seen
            THEN ParseTargetsFrom_noTypeCheck(labels, i + 1, seen, targets,
                                              default_schedule, default_compress)
            ELSE IF target.err # "none" THEN [err |-> target.err, targets |-> targets]
            ELSE ParseTargetsFrom_noTypeCheck(labels, i + 1,
                     seen \cup {<<parts[2], parts[3]>>},
                     Append(targets, [f \in DOMAIN target \ {"err"} |-> target[f]]),
                     default_schedule, default_compress)

(* the loop without the set of pairs already seen *)
RECURSIVE ParseTargetsFrom_noSeen(_, _, _, _, _, _)
ParseTargetsFrom_noSeen(labels, i, seen, targets, default_schedule, default_compress) ==
    IF i > Len(labels) THEN [err |-> "none", targets |-> targets]
    ELSE LET parts == Split(labels[i].k)
             target == TargetConfig_from_labels(parts[2], parts[3], labels,
                           default_schedule, default_compress)
         IN IF \/ ~StartsWith(labels[i].k, <<"backup", ".">>)
               \/ Len(parts) < 4
               \/ parts[2] \notin TARGET_TYPES
            THEN ParseTargetsFrom_noSeen(labels, i + 1, seen, targets,
                                         default_schedule, default_compress)
            ELSE IF target.err # "none" THEN [err |-> target.err, targets |-> targets]
            ELSE ParseTargetsFrom_noSeen(labels, i + 1, seen,
                     Append(targets, [f \in DOMAIN target \ {"err"} |-> target[f]]),
                     default_schedule, default_compress)

(* models.py:306-337: one pass of the loop body per label, in dict order *)
RECURSIVE ParseTargetsFrom(_, _, _, _, _, _)
ParseTargetsFrom(labels, i, seen, targets, default_schedule, default_compress) ==
    IF i > Len(labels) THEN [err |-> "none", targets |-> targets]
    ELSE LET key == labels[i].k
             skip(parts) ==
                 \/ ~StartsWith(key, <<"backup", ".">>)
                 \/ Len(parts) < 4
                 \/ parts[2] \in {<<"enabled">>, <<"stop">>, <<"schedule">>}
                 \/ parts[2] \notin TARGET_TYPES
                 \/ <<parts[2], parts[3]>> \in seen
             add(target_type, instance, target) ==
                 IF target.err # "none"
                 THEN [err |-> target.err, targets |-> targets]
                 ELSE ParseTargetsFrom(labels, i + 1,
                          seen \cup {<<target_type, instance>>},
                          Append(targets, [f \in DOMAIN target \ {"err"} |-> target[f]]),
                          default_schedule, default_compress)
             body(parts) ==
                 IF skip(parts)
                 THEN ParseTargetsFrom(labels, i + 1, seen, targets,
                                       default_schedule, default_compress)
                 ELSE add(parts[2], parts[3],
                          TargetConfig_from_labels(parts[2], parts[3], labels,
                              default_schedule, default_compress))
         IN body(Split(key))

(* models.py:299-339 *)
_parse_targets(labels, default_schedule, default_compress) ==
    ParseTargetsFrom(labels, 1, {}, <<>>, default_schedule, default_compress)

(* models.py:147-187; default_schedules is an optional dict *)
ContainerBackupConfig_from_labels(container_id, container_name, labels, default_schedules, default_target_schedule, default_target_compress) ==
    LET build(targets) ==
            [err |-> targets.err,
             container_id |-> container_id,
             container_name |-> container_name,
             enabled |-> _parse_bool(Get(labels, <<"backup", ".", "enabled">>, <<"false">>)),
             stop |-> _parse_bool(Get(labels, <<"backup", ".", "stop">>, <<"false">>)),
             schedules |-> _parse_schedules(labels, DictOr(default_schedules, EmptyDict)),
             targets |-> targets.targets]
    IN build(_parse_targets(labels, default_target_schedule, default_target_compress))

(***************************************************************************)
(* discovery.py                                                            *)
(***************************************************************************)
LABEL_PREFIX == <<"backup", ".">>

ENABLED_LABEL == <<"backup", ".", "enabled">>

(* discovery.py:199-209 *)
_get_builtin_defaults ==
    [n \in {<<"daily">>, <<"hourly">>, <<"weekly">>} |->
        CASE n = <<"daily">> -> ScheduleConfig(<<"daily">>, <<"0 3 * * *">>, 7)
          [] n = <<"hourly">> -> ScheduleConfig(<<"hourly">>, <<"0 * * * *">>, 24)
          [] n = <<"weekly">> -> ScheduleConfig(<<"weekly">>, <<"0 4 * * 0">>, 4)]

(* a Discovery that keeps an absent default_schedules as the empty dict *)
Discovery_init_noBuiltin(docker_client, default_schedules, default_target_schedule, default_target_compress) ==
    [_client |-> docker_client,
     _default_schedules |-> DictOr(default_schedules, EmptyDict),
     _default_target_schedule |-> default_target_schedule,
     _default_target_compress |-> default_target_compress]

(* __init__ that takes the built-in schedules only when given None *)
Discovery_init_noneOnly(docker_client, default_schedules, default_target_schedule, default_target_compress) ==
    [_client |-> docker_client,
     _default_schedules |-> IF default_schedules.some THEN default_schedules.d
                            ELSE _get_builtin_defaults,
     _default_target_schedule |-> default_target_schedule,
     _default_target_compress |-> default_target_compress]

(* discovery.py:66-69: the fields a new Discovery holds *)
Discovery_init(docker_client, default_schedules, default_target_schedule, default_target_compress) ==
    [_client |-> docker_client,
     _default_schedules |-> DictOr(default_schedules, _get_builtin_defaults),
     _default_target_schedule |-> default_target_schedule,
     _default_target_compress |-> default_target_compress]

(***************************************************************************)
(* The controller configuration (parsed YAML).  A value of the             *)
(* configuration is a record: kind is "dict", "str", "list", "none" (YAML  *)
(* null) or "absent" (the key is missing); d holds the items of a dict, a  *)
(* sequence of entries [k, v]; text holds the atoms of a str or the        *)
(* elements of a list.  A config is [defaults |-> value] and the dict      *)
(* under "defaults" has the items "schedules" and "target".                *)
(***************************************************************************)
DictValue(d) == [kind |-> "dict", d |-> d, text |-> <<>>]
StrValue(text) == [kind |-> "str", d |-> <<>>, text |-> text]
ListValue(text) == [kind |-> "list", d |-> <<>>, text |-> text]
NoneValue == [kind |-> "none", d |-> <<>>, text |-> <<>>]
AbsentValue == [kind |-> "absent", d |-> <<>>, text |-> <<>>]

(* d.get(key, {}) on a dict value: the item, or an empty dict *)
GetOrEmpty(value, key) ==
    IF HasKey(value.d, key) THEN Get(value.d, key, None) ELSE DictValue(<<>>)

(* key in value, as Python evaluates it for a dict, a str and a list *)
Contains(value, key) ==
    IF value.kind = "dict" THEN HasKey(value.d, key)
    ELSE \E i \in DOMAIN value.text : value.text[i] = key

(* schedules[name] = schedule *)
Put(d, k, v) == [x \in DOMAIN d \cup {k} |-> IF x = k THEN v ELSE d[x]]

(* the loop that tests "cron" in sched_config only *)
RECURSIVE LoadLoop_noIsinstance(_, _, _)
LoadLoop_noIsinstance(items, i, schedules) ==
    IF i > Len(items) THEN [err |-> "none", schedules |-> schedules]
    ELSE IF items[i].v.kind = "none" THEN [err |-> "TypeError", schedules |-> EmptyDict]
    ELSE IF Contains(items[i].v, "cron")
         THEN IF items[i].v.kind # "dict" THEN [err |-> "TypeError", schedules |-> EmptyDict]
              ELSE LoadLoop_noIsinstance(items, i + 1,
                       Put(schedules, items[i].k,
                           ScheduleConfig(items[i].k, Untag(Get(items[i].v.d, "cron", NoneV)),
                                          Untag(Get(items[i].v.d, "retention", IntV(7))))))
    ELSE LoadLoop_noIsinstance(items, i + 1, schedules)

(* discovery.py:237-248: an entry that is a dict with "cron" becomes a     *)
(* ScheduleConfig, any other entry is logged and skipped                   *)
RECURSIVE LoadLoop(_, _, _)
LoadLoop(items, i, schedules) ==
    IF i > Len(items) THEN [err |-> "none", schedules |-> schedules]
    ELSE IF items[i].v.kind = "dict" /\ Contains(items[i].v, "cron")
         THEN LoadLoop(items, i + 1,
                  Put(schedules, items[i].k,
                      ScheduleConfig(items[i].k, Untag(Get(items[i].v.d, "cron", NoneV)),
                                     Untag(Get(items[i].v.d, "retention", IntV(7))))))
    ELSE LoadLoop(items, i + 1, schedules)

(* discovery.py:223-250; .get on None and .items on a value that is no     *)
(* dict raise AttributeError                                               *)
load_default_schedules_from_config(config) ==
    LET over(schedule_configs) ==
            IF schedule_configs.kind # "dict"
            THEN [err |-> "AttributeError", schedules |-> EmptyDict]
            ELSE LoadLoop(schedule_configs.d, 1, EmptyDict)
        from(dflts) ==
            IF dflts.kind # "dict" THEN [err |-> "AttributeError", schedules |-> EmptyDict]
            ELSE over(GetOrEmpty(dflts, "schedules"))
    IN from(IF config.defaults.kind = "absent" THEN DictValue(<<>>) ELSE config.defaults)

(* discovery.py:253-275: the fields of the Discovery that is created, or   *)
(* the exception                                                           *)
create_discovery_from_config(config, docker_client) ==
    LET build(loaded, target_defaults) ==
            IF loaded.err # "none" THEN [err |-> loaded.err, self |-> <<>>]
            ELSE IF target_defaults.kind # "dict"
                 THEN [err |-> "AttributeError", self |-> <<>>]
            ELSE [err |-> "none",
                  self |-> Discovery_init(docker_client, SomeDict(loaded.schedules),
                               Untag(Get(target_defaults.d, "schedule", StrV(<<"daily">>))),
                               Untag(Get(target_defaults.d, "compress", BoolV(TRUE))))]
    IN build(load_default_schedules_from_config(config),
             IF config.defaults.kind = "dict" THEN GetOrEmpty(config.defaults, "target")
             ELSE DictValue(<<>>))

(* the extraction as a loop that ends at the first label of another prefix *)
RECURSIVE _extract_backup_labels_breakAtOther(_)
_extract_backup_labels_breakAtOther(labels) ==
    IF labels = <<>> \/ ~StartsWith(labels[1].k, LABEL_PREFIX) THEN <<>>
    ELSE <<labels[1]>> \o _extract_backup_labels_breakAtOther(Tail(labels))

(* discovery.py:175-184 *)
_extract_backup_labels(labels) ==
    SelectSeq(labels, LAMBDA e : StartsWith(e.k, LABEL_PREFIX))

(* _clean_container_name that removes one leading "/" only *)
_clean_container_name_one(name) ==
    IF name # <<>> /\ name[1] = "/" THEN Tail(name) ELSE name

(* discovery.py:186-197 *)
_clean_container_name(name) == LStripSlash(name)

(* discovery.py:151-173; self is the record of the Discovery's fields *)
_parse_container(self, container) ==
    ContainerBackupConfig_from_labels(
        OrElse(container.id, <<>>),
        _clean_container_name(OrElse(container.name, <<>>)),
        _extract_backup_labels(OrElse(container.labels, <<>>)),
        SomeDict(self._default_schedules),
        self._default_target_schedule,
        self._default_target_compress)

(***************************************************************************)
(* The registry (Docker daemon) behind the client.  containers.list with   *)
(* filters {"label": "<key>=<value>"} returns the containers whose label   *)
(* <key> has exactly the value <value> ("exact"); a registry that ignores  *)
(* the filter returns every container ("loose").                           *)
(***************************************************************************)
RegistryList(registry, filterKey, filterValue, mode) ==
    IF mode = "exact"
    THEN SelectSeq(registry,
                   LAMBDA c : Get(OrElse(c.labels, <<>>), filterKey, None) = filterValue)
    ELSE registry

(* discovery.py:96-98: the query find_enabled_containers sends *)
ListQuery == [key |-> ENABLED_LABEL, value |-> <<"true">>]

(* str.startswith on texts *)
TextStartsWith(s, p) == Len(s) >= Len(p) /\ SubSeq(s, 1, Len(p)) = p

(* containers.get(id): the first container whose id starts with id (a full *)
(* or a short id), none when not found                                     *)
RegistryGet(registry, id) ==
    LET first(hits) == IF hits = <<>> THEN <<>> ELSE <<hits[1]>>
    IN first(SelectSeq(registry, LAMBDA c : TextStartsWith(Flat(c.id), Flat(id))))

(***************************************************************************)
(* discovery.py:71-81, the client property.  With no client yet and the    *)
(* daemon down, either docker.from_env() or ping() raises DockerException  *)
(* (failAt); when ping() raises, _client has already been assigned.        *)
(***************************************************************************)
ClientAccess(cl, dmn, failAt) ==
    IF cl # "None" THEN [_client |-> cl, fault |-> "none"]
    ELSE IF dmn = "up" THEN [_client |-> "from_env", fault |-> "none"]
    ELSE IF failAt = "from_env" THEN [_client |-> "None", fault |-> "from_env"]
    ELSE [_client |-> "from_env", fault |-> "ping"]

(* the loop without the test of config.enabled *)
RECURSIVE FindLoop_noEnabledTest(_, _, _, _)
FindLoop_noEnabledTest(self, listed, i, configs) ==
    IF i > Len(listed) THEN [raised |-> "none", configs |-> configs]
    ELSE LET config == _parse_container(self, listed[i])
         IN IF config.err # "none" THEN FindLoop_noEnabledTest(self, listed, i + 1, configs)
            ELSE FindLoop_noEnabledTest(self, listed, i + 1, Append(configs, config))

(* the loop without the try/except around one container *)
RECURSIVE FindLoop_abortOnError(_, _, _, _)
FindLoop_abortOnError(self, listed, i, configs) ==
    IF i > Len(listed) THEN [raised |-> "none", configs |-> configs]
    ELSE LET config == _parse_container(self, listed[i])
         IN IF config.err # "none" THEN [raised |-> config.err, configs |-> <<>>]
            ELSE IF config.enabled
                 THEN FindLoop_abortOnError(self, listed, i + 1, Append(configs, config))
            ELSE FindLoop_abortOnError(self, listed, i + 1, configs)

(***************************************************************************)
(* discovery.py:102-127, the loop over the listed containers: a container  *)
(* whose parsing raises is logged and skipped, a parsed one is kept when   *)
(* it is enabled.                                                          *)
(***************************************************************************)
RECURSIVE FindLoop(_, _, _, _)
FindLoop(self, listed, i, configs) ==
    IF i > Len(listed) THEN [raised |-> "none", configs |-> configs]
    ELSE LET body(config) ==
                 IF config.err # "none" THEN FindLoop(self, listed, i + 1, configs)
                 ELSE IF config.enabled
                      THEN FindLoop(self, listed, i + 1, Append(configs, config))
                 ELSE FindLoop(self, listed, i + 1, configs)
         IN body(_parse_container(self, listed[i]))

(* get_container_config without the test of config.enabled *)
GetParse_ignoreEnabled(self, container) ==
    LET config == _parse_container(self, container)
    IN IF config.err # "none" THEN [raised |-> config.err, configs |-> <<>>]
       ELSE [raised |-> "none", configs |-> <<config>>]

(* discovery.py:142-149 after containers.get returned: parse, then the     *)
(* enabled test; an exception of the parse that is no DockerException      *)
(* leaves the method as it is.                                             *)
GetParse(self, container) ==
    LET answer(config) ==
            IF config.err # "none" THEN [raised |-> config.err, configs |-> <<>>]
            ELSE IF config.enabled THEN [raised |-> "none", configs |-> <<config>>]
            ELSE [raised |-> "none", configs |-> <<>>]
    IN answer(_parse_container(self, container))

(***************************************************************************)
(* State.                                                                  *)
(*   containers, daemon   the registry: its containers in listing order,   *)
(*                        and whether the daemon answers                   *)
(*   _client, _default_*  the fields of the Discovery object               *)
(*   op                   the last call of a public Discovery method since *)
(*                        the registry last changed: its inputs, the       *)
(*                        registry it saw, and its outcome                 *)
(*   labels, defaults,    a label mapping under construction, the caller's *)
(*   call                 default_schedules argument, and the last direct  *)
(*                        call of the label compiler on them               *)
(***************************************************************************)
VARIABLES containers, daemon, _client, _default_schedules,
          _default_target_schedule, _default_target_compress, op,
          labels, defaults, call

vars == <<containers, daemon, _client, _default_schedules,
          _default_target_schedule, _default_target_compress, op,
          labels, defaults, call>>

discoveryVars == <<containers, daemon, _client, _default_schedules,
                   _default_target_schedule, _default_target_compress, op>>

labelVars == <<labels, defaults, call>>

MaxContainers == 2

MaxLabels == 3

L(k, v) == [k |-> k, v |-> v]

(* the caller-supplied default schedule sets that are tried *)
CustomDaily == ScheduleConfig(<<"daily">>, <<"0 2 * * *">>, 14)

CustomWeekly == ScheduleConfig(<<"weekly">>, <<"0 3 * * 0">>, 8)

DefaultChoices ==
    {NoDict,
     SomeDict(EmptyDict),
     SomeDict([n \in {<<"daily">>} |-> CustomDaily]),
     SomeDict([n \in {<<"daily">>, <<"weekly">>} |->
                 IF n = <<"daily">> THEN CustomDaily ELSE CustomWeekly])}

(* the label mappings of the containers that are created *)
ContainerLabelChoices ==
    {<< L(<<"com", ".", "x">>, <<"true">>) >>,
     << L(ENABLED_LABEL, <<"true">>),
        L(<<"backup", ".", "fs", ".", "data", ".", "path">>, <<"/", "data">>),
        L(<<"traefik", ".", "enable">>, <<"true">>) >>,
     << L(ENABLED_LABEL, <<"yes">>) >>,
     << L(ENABLED_LABEL, <<"1">>) >>,
     << L(ENABLED_LABEL, <<"false">>) >>,
     << L(ENABLED_LABEL, <<>>) >>,
     << L(ENABLED_LABEL, <<"true">>),
        L(<<"backup", ".", "postgres", ".", "main", ".", "port">>, None) >>,
     << L(ENABLED_LABEL, <<"On">>),
        L(<<"backup", ".", "schedule", ".", "daily", ".", "cron">>, <<"0 5 * * *">>) >>}

(* container ids and names, by position of creation *)
IdOf(i) ==
    CASE i = 1 -> <<"c1">> [] i = 2 -> <<"c2">> [] i = 3 -> <<"c3">>
      [] OTHER -> <<"c4">>

NameOf(i) ==
    CASE i = 1 -> <<"/", "web">> [] i = 2 -> <<"db">> [] OTHER -> <<"/", "/", "x">>

IdPool == {IdOf(i) : i \in 1..(MaxContainers + 1)} \cup {<<"c">>}

NoOp ==
    [name |-> "none", arg |-> <<>>, mode |-> "exact", fault |-> "none",
     registry |-> <<>>, listed |-> <<>>, raised |-> "none",
     returned |-> FALSE, result |-> <<>>]

NoCall == [fn |-> "none", err |-> "none", config |-> <<>>]

(* the Discovery object of the current state *)
Self ==
    [_client |-> _client,
     _default_schedules |-> _default_schedules,
     _default_target_schedule |-> _default_target_schedule,
     _default_target_compress |-> _default_target_compress]

(* Discovery(docker_client, default_schedules) facing an empty registry *)
Init ==
    /\ containers = <<>>
    /\ daemon = "up"
    /\ \E dc \in {"None", "injected"}, ds \in {NoDict, SomeDict([n \in {<<"daily">>} |-> CustomDaily])} :
          LET d == Discovery_init(dc, ds, <<"daily">>, TRUE)
          IN /\ _client = d._client
             /\ _default_schedules = d._default_schedules
             /\ _default_target_schedule = d._default_target_schedule
             /\ _default_target_compress = d._default_target_compress
    /\ op = NoOp
    /\ labels = <<>>
    /\ defaults = NoDict
    /\ call = NoCall

(* the environment: a container is created *)
CreateContainer ==
    /\ Len(containers) < MaxContainers
    /\ \E ls \in ContainerLabelChoices :
          containers' = Append(containers,
              [id |-> IdOf(Len(containers) + 1),
               name |-> NameOf(Len(containers) + 1),
               labels |-> ls])
    /\ op' = NoOp
    /\ UNCHANGED <<daemon, _client, _default_schedules, _default_target_schedule,
                   _default_target_compress, labelVars>>

(* the environment: the daemon stops or starts answering *)
DaemonStops ==
    /\ daemon = "up"
    /\ daemon' = "down"
    /\ op' = NoOp
    /\ UNCHANGED <<containers, _client, _default_schedules, _default_target_schedule,
                   _default_target_compress, labelVars>>

DaemonStarts ==
    /\ daemon = "down"
    /\ daemon' = "up"
    /\ op' = NoOp
    /\ UNCHANGED <<containers, _client, _default_schedules, _default_target_schedule,
                   _default_target_compress, labelVars>>

(* a registry error that is answered by returning nothing *)
RaiseConnectionError_swallowed(base, fault) ==
    [base EXCEPT !.fault = fault, !.returned = TRUE]

(* discovery.py:79-80, 99-100, 148-149: a DockerException of the registry *)
(* leaves the method as DockerConnectionError                             *)
RaiseConnectionError(base, fault) ==
    [base EXCEPT !.fault = fault, !.raised = "DockerConnectionError"]

(* find_enabled_containers with a configs list kept from pass to pass *)
find_enabled_containers_accumulating(name, mode, failAt) ==
    LET base == [NoOp EXCEPT !.name = name, !.mode = mode, !.registry = containers]
        returns(listed, loop) ==
            [base EXCEPT !.listed = listed, !.raised = loop.raised,
                         !.returned = (loop.raised = "none"),
                         !.result = op.result \o loop.configs]
        iterate(listed) == returns(listed, FindLoop(Self, listed, 1, <<>>))
        outcome(cl) ==
            [_client |-> cl._client,
             op |-> IF cl.fault # "none" THEN RaiseConnectionError(base, cl.fault)
                    ELSE IF daemon = "down" THEN RaiseConnectionError(base, "list")
                    ELSE iterate(RegistryList(containers, ListQuery.key,
                                              ListQuery.value, mode))]
    IN outcome(ClientAccess(_client, daemon, failAt))

(***************************************************************************)
(* discovery.py:83-127.  The value is the call's effect: the _client field *)
(* after the client property was read, and the record of the call.         *)
(***************************************************************************)
find_enabled_containers(name, mode, failAt) ==
    LET base == [NoOp EXCEPT !.name = name, !.mode = mode, !.registry = containers]
        returns(listed, loop) ==
            [base EXCEPT !.listed = listed, !.raised = loop.raised,
                         !.returned = (loop.raised = "none"),
                         !.result = loop.configs]
        iterate(listed) == returns(listed, FindLoop(Self, listed, 1, <<>>))
        outcome(cl) ==
            [_client |-> cl._client,
             op |-> IF cl.fault # "none" THEN RaiseConnectionError(base, cl.fault)
                    ELSE IF daemon = "down" THEN RaiseConnectionError(base, "list")
                    ELSE iterate(RegistryList(containers, ListQuery.key,
                                              ListQuery.value, mode))]
    IN outcome(ClientAccess(_client, daemon, failAt))

FindEnabledContainers ==
    \E mode \in {"exact", "loose"}, failAt \in {"from_env", "ping"} :
       \E out \in {find_enabled_containers("find_enabled_containers", mode, failAt)} :
          /\ _client' = out._client
          /\ op' = out.op
          /\ UNCHANGED <<containers, daemon, _default_schedules,
                         _default_target_schedule, _default_target_compress, labelVars>>

(* discovery.py:211-220: refresh() is find_enabled_containers() *)
Refresh ==
    \E mode \in {"exact", "loose"}, failAt \in {"from_env", "ping"} :
       \E out \in {find_enabled_containers("refresh", mode, failAt)} :
          /\ _client' = out._client
          /\ op' = out.op
          /\ UNCHANGED <<containers, daemon, _default_schedules,
                         _default_target_schedule, _default_target_compress, labelVars>>

(* discovery.py:129-149; a result of None is the empty sequence *)
get_container_config(container_id, failAt) ==
    LET base == [NoOp EXCEPT !.name = "get_container_config", !.arg = container_id,
                             !.registry = containers]
        returns(got, parsed) ==
            [base EXCEPT !.listed = got, !.raised = parsed.raised,
                         !.returned = (parsed.raised = "none"),
                         !.result = parsed.configs]
        found(got) ==
            IF got = <<>> THEN [base EXCEPT !.fault = "NotFound", !.returned = TRUE]
            ELSE returns(got, GetParse(Self, got[1]))
        outcome(cl) ==
            [_client |-> cl._client,
             op |-> IF cl.fault # "none" THEN RaiseConnectionError(base, cl.fault)
                    ELSE IF daemon = "down" THEN RaiseConnectionError(base, "get")
                    ELSE found(RegistryGet(containers, container_id))]
    IN outcome(ClientAccess(_client, daemon, failAt))

GetContainerConfig ==
    \E container_id \in IdPool, failAt \in {"from_env", "ping"} :
       \E out \in {get_container_config(container_id, failAt)} :
          /\ _client' = out._client
          /\ op' = out.op
          /\ UNCHANGED <<containers, daemon, _default_schedules,
                         _default_target_schedule, _default_target_compress, labelVars>>

Next ==
    \/ CreateContainer
    \/ DaemonStops
    \/ DaemonStarts
    \/ FindEnabledContainers
    \/ Refresh
    \/ GetContainerConfig

Spec == Init /\ [][Next]_vars

(***************************************************************************)
(* The label compiler on its own: a label mapping is built entry by entry  *)
(* and compiled, either by a direct call of                                *)
(* ContainerBackupConfig.from_labels with the caller's default_schedules,  *)
(* or through a Discovery constructed with these default_schedules.        *)
(***************************************************************************)
SchedKey(name, field) == <<"backup", ".", "schedule", ".">> \o name \o Dot \o field

RetentionChoices ==
    {<<"1", "4">>, <<"0">>, <<"-", "3">>, <<"+", "5">>, <<" ", "5", " ">>,
     <<"1", "_", "0">>, <<>>, <<"invalid">>, <<"5", "_">>, <<"-">>,
     <<"\t", "3", "0">>, <<"1", "4", "\r\n">>, <<"1", "\n", "4">>,
     <<"", "1", "4">>, <<" ", "3">>}

LabelPool ==
    {L(SchedKey(<<"daily">>, <<"cron">>), <<"0 5 * * *">>),
     L(SchedKey(<<"nightly">>, <<"cron">>), <<"0 1 * * *">>),
     L(SchedKey(<<"nightly">>, <<"retention">>), <<"3", "0">>),
     L(<<"backup", ".", "schedule", ".", "daily">>, <<"0 6 * * *">>),
     L(SchedKey(<<"weekly">>, <<"cron">>) \o <<".", "tz">>, <<"utc">>),
     L(ENABLED_LABEL, <<"true">>)}
    \cup {L(SchedKey(<<"daily">>, <<"retention">>), r) : r \in RetentionChoices}

InitLabels ==
    /\ containers = <<>>
    /\ daemon = "up"
    /\ _client = "injected"
    /\ _default_schedules = _get_builtin_defaults
    /\ _default_target_schedule = <<"daily">>
    /\ _default_target_compress = TRUE
    /\ op = NoOp
    /\ labels = <<>>
    /\ defaults \in DefaultChoices
    /\ call = NoCall

(* one more entry is written into the label mapping *)
AddLabel ==
    /\ Len(labels) < MaxLabels
    /\ \E e \in LabelPool :
          /\ ~HasKey(labels, e.k)
          /\ labels' = Append(labels, e)
    /\ call' = NoCall
    /\ UNCHANGED <<discoveryVars, defaults>>

(* ContainerBackupConfig.from_labels(id, name, labels, default_schedules) *)
FromLabels ==
    /\ call.fn = "none"
    /\ \E config \in {ContainerBackupConfig_from_labels(<<"c1">>, <<"web">>, labels,
                            defaults, <<"daily">>, TRUE)} :
          call' = [fn |-> "from_labels", err |-> config.err, config |-> config]
    /\ UNCHANGED <<discoveryVars, labels, defaults>>

(* Discovery(client, default_schedules)._parse_container(container) *)
ParseContainer ==
    /\ call.fn = "none"
    /\ \E config \in {_parse_container(Discovery_init("injected", defaults, <<"daily">>, TRUE),
                                         [id |-> <<"c1">>, name |-> <<"/", "web">>,
                                          labels |-> labels])} :
          call' = [fn |-> "_parse_container", err |-> config.err, config |-> config]
    /\ UNCHANGED <<discoveryVars, labels, defaults>>

NextLabels ==
    \/ AddLabel
    \/ FromLabels
    \/ ParseContainer

SpecLabels == InitLabels /\ [][NextLabels]_vars

(***************************************************************************)
(* The compiler on target labels: a label mapping with target keys,        *)
(* reserved keys and malformed keys is built entry by entry and compiled   *)
(* under a container name and target defaults chosen by the caller.        *)
(***************************************************************************)
MaxTargetLabels == 3

(* no call yet; args are the arguments of the call *)
NoArgsCall == [fn |-> "none", err |-> "none", config |-> <<>>, args |-> <<>>]

TargetKey(type, instance, rest) == <<"backup", ".">> \o type \o Dot \o instance \o Dot \o rest

TargetLabelPool ==
    {L(TargetKey(<<"fs">>, <<"data">>, <<"path">>), <<"/", "data">>),
     L(TargetKey(<<"fs">>, <<"data">>, <<"schedule">>), <<"hourly">>),
     L(TargetKey(<<"fs">>, <<"data">>, <<"compress">>), <<"false">>),
     L(TargetKey(<<"fs">>, <<"data">>, <<"compress">>), <<>>),
     L(TargetKey(<<"fs">>, <<"data">>, <<"compress">>), <<"maybe">>),
     L(TargetKey(<<"postgres">>, <<"main">>, <<"port">>), <<"5", "4">>),
     L(TargetKey(<<"postgres">>, <<"main">>, <<"port">>), None),
     L(TargetKey(<<"postgres">>, <<"main">>, <<"compress">>), <<"On">>),
     L(TargetKey(<<"postgres">>, <<"main">>, <<"schedule">>), <<>>),
     L(TargetKey(<<"fs">>, <<"main">>, <<"exclude", ".", "tmp">>), <<"yes">>),
     L(TargetKey(<<"unknown">>, <<"x">>, <<"y">>), <<"v">>),
     L(TargetKey(<<"enabled">>, <<"a">>, <<"b">>), <<"x">>),
     L(<<"backup", ".", "invalid">>, <<"value">>),
     L(<<"backup", ".", "fs", ".", "data">>, <<"x">>),
     L(<<"com", ".", "fs", ".", "data", ".", "path">>, <<"/", "x">>),
     L(<<"backup", ".", "schedule", ".", "daily", ".", "cron">>, <<"0 5 * * *">>),
     L(<<"backup", ".", "stop">>, <<"true">>)}

(* the container names and target defaults a caller passes *)
CallerArgs ==
    {[name |-> <<"/", "myapp">>, default_schedule |-> <<"daily">>, default_compress |-> TRUE],
     [name |-> <<"myapp">>, default_schedule |-> <<"weekly">>, default_compress |-> FALSE],
     [name |-> <<"/", "/", "x">>, default_schedule |-> <<"daily">>, default_compress |-> FALSE]}

InitTargets ==
    /\ containers = <<>>
    /\ daemon = "up"
    /\ _client = "injected"
    /\ _default_schedules = _get_builtin_defaults
    /\ _default_target_schedule = <<"daily">>
    /\ _default_target_compress = TRUE
    /\ op = NoOp
    /\ labels = <<>>
    /\ defaults = NoDict
    /\ call = NoArgsCall

(* one more entry is written into the label mapping *)
AddTargetLabel ==
    /\ Len(labels) < MaxTargetLabels
    /\ \E e \in TargetLabelPool :
          /\ ~HasKey(labels, e.k)
          /\ labels' = Append(labels, e)
    /\ call' = NoArgsCall
    /\ UNCHANGED <<discoveryVars, defaults>>

(* ContainerBackupConfig.from_labels(id, name, labels, None, schedule, compress) *)
Assemble ==
    /\ call.fn = "none"
    /\ \E a \in CallerArgs :
          \E config \in {ContainerBackupConfig_from_labels(<<"c1">>, a.name, labels, defaults,
                             a.default_schedule, a.default_compress)} :
             call' = [fn |-> "from_labels", err |-> config.err, config |-> config, args |-> a]
    /\ UNCHANGED <<discoveryVars, labels, defaults>>

(* Discovery(client, None, schedule, compress)._parse_container(container) *)
ParseNamed ==
    /\ call.fn = "none"
    /\ \E a \in CallerArgs :
          \E config \in {_parse_container(
                             Discovery_init("injected", defaults, a.default_schedule,
                                            a.default_compress),
                             [id |-> <<"c1">>, name |-> a.name, labels |-> labels])} :
             call' = [fn |-> "_parse_container", err |-> config.err, config |-> config,
                      args |-> a]
    /\ UNCHANGED <<discoveryVars, labels, defaults>>

NextTargets ==
    \/ AddTargetLabel
    \/ Assemble
    \/ ParseNamed

SpecTargets == InitTargets /\ [][NextTargets]_vars

(***************************************************************************)
(* The compiler under edits of the labels: the mapping holds target labels *)
(* of three (type, instance) pairs; after every edit (an entry added,      *)
(* removed, or its value changed) it is compiled again with the same name  *)
(* and target defaults, and call holds the configuration of the current    *)
(* mapping.                                                                *)
(***************************************************************************)
EditLabelPool ==
    {L(TargetKey(<<"fs">>, <<"data">>, <<"path">>), <<"/", "data">>),
     L(TargetKey(<<"fs">>, <<"data">>, <<"schedule">>), <<"hourly">>),
     L(TargetKey(<<"fs">>, <<"data">>, <<"compress">>), <<"false">>),
     L(TargetKey(<<"fs">>, <<"data">>, <<"compress">>), <<"true">>),
     L(TargetKey(<<"postgres">>, <<"main">>, <<"port">>), <<"5", "4">>),
     L(TargetKey(<<"postgres">>, <<"main">>, <<"port">>), <<"1">>),
     L(TargetKey(<<"postgres">>, <<"main">>, <<"compress">>), <<"On">>),
     L(TargetKey(<<"postgres">>, <<"main">>, <<"schedule">>), <<"weekly">>),
     L(TargetKey(<<"fs">>, <<"main">>, <<"exclude", ".", "tmp">>), <<"yes">>),
     L(TargetKey(<<"fs">>, <<"main">>, <<"schedule">>), <<"hourly">>)}

(* the mapping without its i-th entry *)
RemoveAt(ls, i) == SubSeq(ls, 1, i - 1) \o SubSeq(ls, i + 1, Len(ls))

(* ContainerBackupConfig.from_labels on the mapping ls with the arguments a *)
Compiled(ls, a) ==
    LET record(config) ==
            [fn |-> "from_labels", err |-> config.err, config |-> config, args |-> a]
    IN record(ContainerBackupConfig_from_labels(<<"c1">>, a.name, ls, NoDict,
                  a.default_schedule, a.default_compress))

InitEdits ==
    /\ containers = <<>>
    /\ daemon = "up"
    /\ _client = "injected"
    /\ _default_schedules = _get_builtin_defaults
    /\ _default_target_schedule = <<"daily">>
    /\ _default_target_compress = TRUE
    /\ op = NoOp
    /\ labels = <<>>
    /\ defaults = NoDict
    /\ \E a \in CallerArgs : call = Compiled(<<>>, a)

EditAdd ==
    /\ Len(labels) < MaxTargetLabels
    /\ \E e \in EditLabelPool :
          /\ ~HasKey(labels, e.k)
          /\ labels' = Append(labels, e)
          /\ call' = Compiled(Append(labels, e), call.args)
    /\ UNCHANGED <<discoveryVars, defaults>>

EditRemove ==
    /\ \E i \in 1..Len(labels) :
          /\ labels' = RemoveAt(labels, i)
          /\ call' = Compiled(RemoveAt(labels, i), call.args)
    /\ UNCHANGED <<discoveryVars, defaults>>

EditChange ==
    /\ \E i \in 1..Len(labels), e \in EditLabelPool :
          /\ e.k = labels[i].k
          /\ e.v # labels[i].v
          /\ labels' = [labels EXCEPT ![i] = e]
          /\ call' = Compiled([labels EXCEPT ![i] = e], call.args)
    /\ UNCHANGED <<discoveryVars, defaults>>

NextEdits ==
    \/ EditAdd
    \/ EditRemove
    \/ EditChange

SpecEdits == InitEdits /\ [][NextEdits]_vars

(***************************************************************************)
(* Two runs of the compiler on one label snapshot.  _parse_schedules       *)
(* collects the schedule names in a set and iterates over it               *)
(* (models.py:277-289); the order of that iteration is not fixed, so each  *)
(* run takes an order of its own.  The schedule dict is held as the        *)
(* sequence of its entries in insertion order.                             *)
(***************************************************************************)
RunLabelPool ==
    {L(SchedKey(<<"daily">>, <<"cron">>), <<"0 5 * * *">>),
     L(SchedKey(<<"daily">>, <<"retention">>), <<"1", "4">>),
     L(SchedKey(<<"nightly">>, <<"cron">>), <<"0 1 * * *">>),
     L(SchedKey(<<"weekly">>, <<"cron">>) \o <<".", "tz">>, <<"utc">>),
     L(SchedKey(<<"hourly">>, <<"retention">>), <<"4", "8">>),
     L(TargetKey(<<"fs">>, <<"data">>, <<"path">>), <<"/", "data">>),
     L(TargetKey(<<"postgres">>, <<"main">>, <<"port">>), <<"5", "4">>),
     L(ENABLED_LABEL, <<"true">>)}

(* the orders in which a set can be iterated *)
Orders(S) == {o \in [1..Cardinality(S) -> S] : \A x \in S : \E i \in DOMAIN o : o[i] = x}

(* dict.items() of a dict whose keys were inserted in the order inserted *)
Items(d, inserted) == [i \in 1..Len(inserted) |-> L(inserted[i], d[inserted[i]])]

(* the loop that ends at the first name whose schedule is None *)
RECURSIVE ScheduleLoop_stopAtNone(_, _, _, _)
ScheduleLoop_stopAtNone(ls, order, i, schedules) ==
    IF i > Len(order) THEN schedules
    ELSE LET schedule == ScheduleConfig_from_labels(order[i], ls)
         IN IF schedule.isNone THEN schedules
            ELSE ScheduleLoop_stopAtNone(ls, order, i + 1,
                                         Append(schedules, L(order[i], schedule.sc)))

(* models.py:285-289: the names are visited in the given order *)
RECURSIVE ScheduleLoop(_, _, _, _)
ScheduleLoop(ls, order, i, schedules) ==
    IF i > Len(order) THEN schedules
    ELSE LET put(schedule) ==
                 IF schedule.isNone THEN schedules
                 ELSE Append(schedules, L(order[i], schedule.sc))
         IN ScheduleLoop(ls, order, i + 1,
                         put(ScheduleConfig_from_labels(order[i], ls)))

(* models.py:268-296 with the insertion order of default_schedules and the *)
(* iteration order of schedule_names given                                 *)
_parse_schedules_in_order(ls, default_schedules, inserted, order) ==
    LET fill(schedules) ==
            schedules \o SelectSeq(Items(default_schedules, inserted),
                                   LAMBDA e : ~HasKey(schedules, e.k))
    IN fill(ScheduleLoop(ls, order, 1, <<>>))

(* one run of ContainerBackupConfig.from_labels that iterates in order, on *)
(* defaults inserted in the order inserted                                 *)
Run(order, inserted) ==
    LET with(config) ==
            [config EXCEPT !.schedules =
                _parse_schedules_in_order(labels, DictOr(defaults, EmptyDict), inserted,
                                          order)]
    IN with(ContainerBackupConfig_from_labels(<<"c1">>, <<"web">>, labels, defaults,
                                              <<"daily">>, TRUE))

InitRuns ==
    /\ containers = <<>>
    /\ daemon = "up"
    /\ _client = "injected"
    /\ _default_schedules = _get_builtin_defaults
    /\ _default_target_schedule = <<"daily">>
    /\ _default_target_compress = TRUE
    /\ op = NoOp
    /\ labels = <<>>
    /\ defaults \in DefaultChoices
    /\ call = NoArgsCall

AddRunLabel ==
    /\ Len(labels) < MaxLabels
    /\ \E e \in RunLabelPool :
          /\ ~HasKey(labels, e.k)
          /\ labels' = Append(labels, e)
    /\ call' = NoArgsCall
    /\ UNCHANGED <<discoveryVars, defaults>>

(* the compiler runs twice on the labels and defaults of the state *)
CompileTwice ==
    /\ call.fn = "none"
    /\ \E first \in Orders(schedule_names(labels)), second \in Orders(schedule_names(labels)),
          inserted \in Orders(DOMAIN DictOr(defaults, EmptyDict)) :
          call' = [fn |-> "twice", err |-> "none",
                   config |-> [first |-> Run(first, inserted), second |-> Run(second, inserted)],
                   args |-> [first |-> first, second |-> second, inserted |-> inserted]]
    /\ UNCHANGED <<discoveryVars, labels, defaults>>

NextRuns ==
    \/ AddRunLabel
    \/ CompileTwice

SpecRuns == InitRuns /\ [][NextRuns]_vars

(***************************************************************************)
(* One workload under two label maps that agree on the labels with the     *)
(* prefix "backup.": the second map is the first with some labels of other *)
(* prefixes left out or one more put in.  Both are discovered by the       *)
(* listing (discovery.py:96-127) and by the lookup (discovery.py:142-145). *)
(***************************************************************************)
MaxMixedLabels == 3

OtherLabelPool ==
    {L(<<"traefik", ".", "enable">>, <<"true">>),
     L(<<"com", ".", "docker", ".", "compose", ".", "service">>, <<"myapp">>),
     L(<<"com", ".", "backup", ".", "enabled">>, <<"false">>),
     L(<<"backupx", ".", "fs", ".", "data", ".", "path">>, <<"/", "x">>),
     L(<<"Backup", ".", "stop">>, <<"true">>),
     L(<<"backup">>, <<"true">>)}

MixedLabelPool ==
    {L(ENABLED_LABEL, <<"true">>),
     L(<<"backup", ".", "stop">>, <<"true">>),
     L(TargetKey(<<"fs">>, <<"data">>, <<"path">>), <<"/", "data">>),
     L(SchedKey(<<"daily">>, <<"cron">>), <<"0 5 * * *">>)} \cup OtherLabelPool

(* ls without the entries at the positions in drop *)
RECURSIVE WithoutPositions(_, _, _)
WithoutPositions(ls, drop, i) ==
    IF i > Len(ls) THEN <<>>
    ELSE (IF i \in drop THEN <<>> ELSE <<ls[i]>>) \o WithoutPositions(ls, drop, i + 1)

InsertAt(ls, i, e) == SubSeq(ls, 1, i - 1) \o <<e>> \o SubSeq(ls, i, Len(ls))

(* the label maps that differ from ls in labels of other prefixes only *)
Variants(ls) ==
    {WithoutPositions(ls, drop, 1) :
        drop \in SUBSET {i \in DOMAIN ls : ls[i] \in OtherLabelPool}}
    \cup {InsertAt(ls, i, e) :
            i \in 1..(Len(ls) + 1), e \in {x \in OtherLabelPool : ~HasKey(ls, x.k)}}

(* discovery.py:96-127 and 142-145 on a registry that holds the workload *)
DiscoverOne(self, ls) ==
    LET on(container) ==
            [found |-> FindLoop(self, RegistryList(<<container>>, ListQuery.key,
                                                   ListQuery.value, "exact"), 1, <<>>),
             got |-> GetParse(self, container)]
    IN on([id |-> <<"c1">>, name |-> <<"/", "web">>, labels |-> ls])

InitMixed ==
    /\ containers = <<>>
    /\ daemon = "up"
    /\ _client = "injected"
    /\ _default_schedules = _get_builtin_defaults
    /\ _default_target_schedule = <<"daily">>
    /\ _default_target_compress = TRUE
    /\ op = NoOp
    /\ labels = <<>>
    /\ defaults = NoDict
    /\ call = NoArgsCall

AddMixedLabel ==
    /\ Len(labels) < MaxMixedLabels
    /\ \E e \in MixedLabelPool :
          /\ ~HasKey(labels, e.k)
          /\ labels' = Append(labels, e)
    /\ call' = NoArgsCall
    /\ UNCHANGED <<discoveryVars, defaults>>

(* the workload is discovered under the labels of the state and under a    *)
(* variant of them                                                         *)
DiscoverBoth ==
    /\ call.fn = "none"
    /\ \E other \in Variants(labels) :
          \E first \in {DiscoverOne(Self, labels)}, second \in {DiscoverOne(Self, other)} :
             call' = [fn |-> "discover", err |-> "none",
                      config |-> [first |-> first, second |-> second],
                      args |-> [other |-> other]]
    /\ UNCHANGED <<discoveryVars, labels, defaults>>

NextMixed ==
    \/ AddMixedLabel
    \/ DiscoverBoth

SpecMixed == InitMixed /\ [][NextMixed]_vars

(***************************************************************************)
(* Discovery objects made from a controller configuration or from the      *)
(* caller's arguments, and a container parsed with the object made.        *)
(***************************************************************************)
MaxEntries == 2

(* the values that are tried as an entry under defaults.schedules *)
EntryChoices ==
    {DictValue(<<L("cron", StrV(<<"0 2 * * *">>)), L("retention", IntV(14))>>),
     DictValue(<<L("cron", StrV(<<"0 3 * * 0">>))>>),
     DictValue(<<L("retention", IntV(8))>>),
     DictValue(<<>>),
     DictValue(<<L("retention", IntV(0)), L("cron", StrV(<<>>))>>),
     DictValue(<<L("cron", StrV(<<"0 1 * * *">>)), L("retention", StrV(<<"1", "4">>))>>),
     DictValue(<<L("cron", IntV(5)), L("retention", BoolV(TRUE))>>),
     StrValue(<<"not a dict">>),
     StrValue(<<"cron", " ", "daily">>),
     ListValue(<<"cron">>),
     NoneValue}

EntryNames == {<<"daily">>, <<"weekly">>, <<"valid">>}

(* the dicts of at most n entries with distinct names *)
RECURSIVE ScheduleDicts(_)
ScheduleDicts(n) ==
    IF n = 0 THEN {<<>>}
    ELSE LET shorter == ScheduleDicts(n - 1)
         IN shorter \cup
            {Append(d, L(name, v)) :
                d \in {x \in shorter : Len(x) = n - 1}, name \in EntryNames, v \in EntryChoices}

DistinctNames(d) == \A i, j \in DOMAIN d : d[i].k = d[j].k => i = j

TargetChoices ==
    {AbsentValue, NoneValue,
     DictValue(<<L("schedule", StrV(<<"weekly">>)), L("compress", BoolV(FALSE))>>)}

(* the dict under "defaults" with the items that are present *)
DefaultsDict(schedules, target) ==
    DictValue((IF schedules.kind = "absent" THEN <<>> ELSE <<L("schedules", schedules)>>)
              \o (IF target.kind = "absent" THEN <<>> ELSE <<L("target", target)>>))

ConfigPool ==
    {[defaults |-> AbsentValue], [defaults |-> NoneValue],
     [defaults |-> DefaultsDict(NoneValue, AbsentValue)]}
    \cup {[defaults |-> DefaultsDict(schedules, target)] :
            schedules \in {AbsentValue} \cup
                          {DictValue(d) : d \in {x \in ScheduleDicts(MaxEntries) : DistinctNames(x)}},
            target \in TargetChoices}

InitConfig ==
    /\ containers = <<>>
    /\ daemon = "up"
    /\ _client = "injected"
    /\ _default_schedules = _get_builtin_defaults
    /\ _default_target_schedule = <<"daily">>
    /\ _default_target_compress = TRUE
    /\ op = NoOp
    /\ labels = <<>>
    /\ defaults = NoDict
    /\ call = NoArgsCall

LoadDefaultSchedules ==
    /\ call.fn = "none"
    /\ \E config \in ConfigPool :
          \E loaded \in {load_default_schedules_from_config(config)} :
             call' = [fn |-> "load_default_schedules_from_config", err |-> loaded.err,
                      config |-> loaded, args |-> [config |-> config]]
    /\ UNCHANGED <<discoveryVars, labels, defaults>>

(* create_discovery_from_config(config, client); nothing is created when   *)
(* it raises                                                               *)
CreateDiscoveryFromConfig ==
    /\ call.fn = "none"
    /\ \E config \in ConfigPool :
          \E made \in {create_discovery_from_config(config, "injected")} :
             /\ call' = [fn |-> "create_discovery_from_config", err |-> made.err,
                         config |-> <<>>, args |-> [config |-> config]]
             /\ IF made.err # "none"
                THEN UNCHANGED <<_client, _default_schedules, _default_target_schedule,
                                 _default_target_compress>>
                ELSE /\ _client' = made.self._client
                     /\ _default_schedules' = made.self._default_schedules
                     /\ _default_target_schedule' = made.self._default_target_schedule
                     /\ _default_target_compress' = made.self._default_target_compress
    /\ UNCHANGED <<containers, daemon, op, labels, defaults>>

(* Discovery(client, default_schedules) *)
CreateDiscovery ==
    /\ call.fn = "none"
    /\ \E default_schedules \in DefaultChoices :
          \E self \in {Discovery_init("injected", default_schedules, <<"daily">>, TRUE)} :
             /\ call' = [fn |-> "Discovery", err |-> "none", config |-> <<>>,
                         args |-> [default_schedules |-> default_schedules]]
             /\ _client' = self._client
             /\ _default_schedules' = self._default_schedules
             /\ _default_target_schedule' = self._default_target_schedule
             /\ _default_target_compress' = self._default_target_compress
    /\ UNCHANGED <<containers, daemon, op, labels, defaults>>

(* the Discovery that was made parses a container *)
ParseWithCreated ==
    /\ call.fn \in {"create_discovery_from_config", "Discovery"}
    /\ call.err = "none"
    /\ \E ls \in ContainerLabelChoices :
          \E config \in {_parse_container(Self, [id |-> <<"c1">>, name |-> <<"/", "web">>,
                                                 labels |-> ls])} :
             /\ labels' = ls
             /\ call' = [fn |-> "_parse_container", err |-> config.err, config |-> config,
                         args |-> call.args]
    /\ UNCHANGED <<discoveryVars, defaults>>

NextConfig ==
    \/ LoadDefaultSchedules
    \/ CreateDiscoveryFromConfig
    \/ CreateDiscovery
    \/ ParseWithCreated

SpecConfig == InitConfig /\ [][NextConfig]_vars

(***************************************************************************)
(* Targets made in each of the three ways: by the constructor, by          *)
(* TargetConfig.from_labels with a type the caller names, and by the       *)
(* assembly of a container's labels.                                       *)
(***************************************************************************)
TypePool ==
    TARGET_TYPES \cup {<<"invalid">>, <<"FS">>, <<"postgresql">>, <<"enabled">>,
                       <<"schedule">>, <<>>, None}

TypeLabelPool ==
    {L(TargetKey(<<"fs">>, <<"data">>, <<"path">>), <<"/", "data">>),
     L(TargetKey(<<"mysql">>, <<"main">>, <<"port">>), <<"3", "3">>),
     L(TargetKey(<<"redis">>, <<"cache">>, <<"db">>), <<"0">>),
     L(TargetKey(<<"unknown">>, <<"x">>, <<"y">>), <<"v">>),
     L(TargetKey(<<"FS">>, <<"data">>, <<"path">>), <<"/", "data">>),
     L(TargetKey(<<"postgresql">>, <<"main">>, <<"host">>), <<"db">>),
     L(TargetKey(<<"None">>, <<"data">>, <<"path">>), <<"/", "n">>),
     L(ENABLED_LABEL, <<"true">>)}

AddTypeLabel ==
    /\ Len(labels) < MaxTargetLabels
    /\ \E e \in TypeLabelPool :
          /\ ~HasKey(labels, e.k)
          /\ labels' = Append(labels, e)
    /\ call' = NoArgsCall
    /\ UNCHANGED <<discoveryVars, defaults>>

(* TargetConfig(type=..., instance=..., schedule="daily", compress=...) *)
ConstructTarget ==
    /\ call.fn = "none"
    /\ \E type \in TypePool, compress \in BOOLEAN :
          \E target \in {TargetConfig(type, <<"main">>, <<"daily">>, compress)} :
             call' = [fn |-> "TargetConfig", err |-> target.err, config |-> target,
                      args |-> [type |-> type]]
    /\ UNCHANGED <<discoveryVars, labels, defaults>>

(* TargetConfig.from_labels(type, instance, labels) *)
TargetFromLabels ==
    /\ call.fn = "none"
    /\ \E type \in TypePool, instance \in {<<"data">>, <<"main">>} :
          \E target \in {TargetConfig_from_labels(type, instance, labels, <<"daily">>, TRUE)} :
             call' = [fn |-> "TargetConfig.from_labels", err |-> target.err,
                      config |-> target, args |-> [type |-> type]]
    /\ UNCHANGED <<discoveryVars, labels, defaults>>

NextTypes ==
    \/ AddTypeLabel
    \/ ConstructTarget
    \/ TargetFromLabels
    \/ Assemble

SpecTypes == InitTargets /\ [][NextTypes]_vars

(***************************************************************************)
(* The two value parsers on their own: _parse_bool and _parse_label_value  *)
(* are applied to None and to every string of at most MaxValueLen atoms.   *)
(***************************************************************************)
MaxValueLen == 2

ValueAtoms ==
    {"-", "+", " ", "\t", "_", "0", "1", "7", "true", "TRUE", "tRuE", "YES", "Yes", "On", "on",
     "off", "OFF", "FALSE", "False", "No", "abc", ""}

(* the strings of at most n atoms *)
RECURSIVE Strings(_)
Strings(n) ==
    IF n = 0 THEN {<<>>}
    ELSE Strings(n - 1) \cup {Append(x, a) : x \in Strings(n - 1), a \in ValueAtoms}

ValuePool == Strings(MaxValueLen) \cup {None}

InitValues ==
    /\ containers = <<>>
    /\ daemon = "up"
    /\ _client = "injected"
    /\ _default_schedules = _get_builtin_defaults
    /\ _default_target_schedule = <<"daily">>
    /\ _default_target_compress = TRUE
    /\ op = NoOp
    /\ labels = <<>>
    /\ defaults = NoDict
    /\ call = NoArgsCall

(* _parse_bool(value); the result is held as a typed value *)
ParseBool ==
    /\ call.fn = "none"
    /\ \E value \in ValuePool :
          call' = [fn |-> "_parse_bool", err |-> "none", config |-> BoolV(_parse_bool(value)),
                   args |-> [value |-> value]]
    /\ UNCHANGED <<discoveryVars, labels, defaults>>

(* _parse_label_value(value) *)
ParseLabelValue ==
    /\ call.fn = "none"
    /\ \E value \in ValuePool :
          \E r \in {_parse_label_value(value)} :
             call' = [fn |-> "_parse_label_value", err |-> r.err, config |-> r.val,
                      args |-> [value |-> value]]
    /\ UNCHANGED <<discoveryVars, labels, defaults>>

NextValues ==
    \/ ParseBool
    \/ ParseLabelValue

SpecValues == InitValues /\ [][NextValues]_vars

(***************************************************************************)
(* Properties.                                                             *)
(***************************************************************************)
Range(seq) == {seq[i] : i \in 1..Len(seq)}

TrueTokens == {<<"true">>, <<"1">>, <<"yes">>, <<"on">>}

(* the labels carry a backup.enabled whose value is a true-token *)
EnabledLabelTruthy(ls) ==
    \E e \in Range(ls) : e.k = ENABLED_LABEL /\ e.v # None /\ Lower(e.v) \in TrueTokens

IsFind == op.name \in {"find_enabled_containers", "refresh"}

ResultIds == {op.result[i].container_id : i \in 1..Len(op.result)}

Parses(c) == _parse_container(Self, c).err = "none"

(* C1: every configuration returned by find_enabled_containers() or        *)
(* refresh() has enabled = true and comes from a listed container whose    *)
(* backup.enabled label is a true-token; a listed container without such a *)
(* label is never in the result, whatever the registry's filter let pass.  *)
C1_OnlyEnabledReturned ==
    IsFind =>
       /\ \A i \in 1..Len(op.result) :
             /\ op.result[i].enabled = TRUE
             /\ \E c \in Range(op.listed) :
                   c.id = op.result[i].container_id /\ EnabledLabelTruthy(c.labels)
       /\ \A c \in Range(op.listed) :
             ~EnabledLabelTruthy(c.labels) => c.id \notin ResultIds

(* a loose registry listed a container that is not enabled, next to one that is *)
C1_Witness ==
    /\ IsFind
    /\ op.mode = "loose"
    /\ \E c \in Range(op.listed) : ~EnabledLabelTruthy(c.labels)
    /\ op.result # <<>>

(* C2: once the registry has returned its list, find_enabled_containers()  *)
(* returns normally, and its result is, in the registry's order, exactly   *)
(* the configurations of the listed containers that parse and are enabled. *)
C2_ParseFailureSkipped ==
    (IsFind /\ op.fault = "none") =>
       LET kept == SelectSeq(op.listed,
                       LAMBDA c : Parses(c) /\ EnabledLabelTruthy(c.labels))
       IN /\ op.returned
          /\ op.raised = "none"
          /\ Len(op.result) = Len(kept)
          /\ \A i \in 1..Len(kept) : op.result[i] = _parse_container(Self, kept[i])

(* a container that fails to parse was listed before one that is returned *)
C2_Witness ==
    /\ IsFind
    /\ op.returned
    /\ \E i, j \in 1..Len(op.listed) :
          /\ i < j
          /\ ~Parses(op.listed[i])
          /\ op.listed[j].id \in ResultIds

(* C3: when the registry cannot be reached or enumerated (connecting,      *)
(* containers.list or containers.get fails with a registry error other     *)
(* than not-found), the call raises DockerConnectionError and returns      *)
(* nothing, not even a partial list.                                       *)
C3_ConnectivityErrorPropagates ==
    (op.name # "none" /\ (daemon = "down" \/ op.fault \in {"from_env", "ping", "list", "get"})) =>
       /\ op.raised = "DockerConnectionError"
       /\ ~op.returned
       /\ op.result = <<>>

(* the daemon was down while the registry held containers *)
C3_Witness ==
    /\ IsFind
    /\ daemon = "down"
    /\ op.fault = "list"
    /\ op.registry # <<>>
    /\ op.raised = "DockerConnectionError"

(* C4: no public discovery operation raises a parse failure to its caller: *)
(* a call either returns or raises DockerConnectionError, and the latter   *)
(* only after a registry fault.                                            *)
C4_ParseErrorsRecovered ==
    op.name # "none" =>
       /\ op.raised \in {"none", "DockerConnectionError"}
       /\ (op.raised = "DockerConnectionError" => op.fault # "none")

(* C5: every container of the registry whose backup.enabled label is a     *)
(* true-token and whose labels parse is in the result of                   *)
(* find_enabled_containers().                                              *)
C5_AllTruthyFound ==
    (IsFind /\ op.returned) =>
       \A c \in Range(op.registry) :
          (EnabledLabelTruthy(c.labels) /\ Parses(c)) => c.id \in ResultIds

(* the container the registry has for an id: the first one whose id the    *)
(* given full or short id begins                                           *)
Resolved(registry, id) ==
    LET at == {i \in DOMAIN registry : TextStartsWith(Flat(registry[i].id), Flat(id))}
    IN {registry[i] : i \in {j \in at : \A k \in at : j <= k}}

(* C6: when the registry answers, get_container_config(id) returns the     *)
(* configuration of the container the registry has for that id if it       *)
(* exists and is enabled, and None if there is no such container or it is  *)
(* not enabled; a configuration is never returned otherwise.               *)
C6_GetContainerConfig ==
    (op.name = "get_container_config" /\ daemon = "up") =>
       LET matches == Resolved(op.registry, op.arg)
       IN /\ matches = {} => (op.returned /\ op.result = <<>>)
          /\ \A c \in matches :
                Parses(c) =>
                   /\ op.returned
                   /\ EnabledLabelTruthy(c.labels) => op.result = <<_parse_container(Self, c)>>
                   /\ ~EnabledLabelTruthy(c.labels) => op.result = <<>>
          /\ op.result # <<>> =>
                /\ \E c \in matches :
                      EnabledLabelTruthy(c.labels) /\ op.result[1].container_id = c.id

(* an enabled container was asked for and its configuration returned,      *)
(* while the registry also holds a container that is not enabled           *)
C6_Witness ==
    /\ op.name = "get_container_config"
    /\ op.returned
    /\ op.result # <<>>
    /\ op.result[1].enabled
    /\ \E c \in Range(op.registry) : ~EnabledLabelTruthy(c.labels)

(* the schedule names for which the labels hold a cron key *)
NamePool == {<<"daily">>, <<"hourly">>, <<"weekly">>, <<"nightly">>}

LabelDefined(ls) == {n \in NamePool : HasKey(ls, SchedKey(n, <<"cron">>))}

(* the schedule names that occur in some backup.schedule.<name>... key *)
LabelReferenced(ls) ==
    {n \in NamePool : \E k \in Keys(ls) :
        StartsWith(k, <<"backup", ".", "schedule", ".">> \o n)}

CallSchedules == call.config.schedules

(* C7: schedule resolution merges labels over defaults by name: the names  *)
(* of the result are those with a cron label together with those of the   *)
(* defaults; a name with a cron label takes its cron and its retention     *)
(* from the labels and nothing from a same-named default; every other      *)
(* default is present unchanged; a name with label keys but no cron key    *)
(* gives no label schedule, and nothing is raised.                         *)
C7_LabelsOverrideDefaults ==
    call.fn = "from_labels" =>
       LET D == IF defaults.some THEN defaults.d ELSE EmptyDict
       IN /\ call.err = "none"
          /\ DOMAIN CallSchedules = LabelDefined(labels) \cup DOMAIN D
          /\ \A n \in LabelDefined(labels) :
                /\ CallSchedules[n].name = n
                /\ CallSchedules[n].cron = Get(labels, SchedKey(n, <<"cron">>), None)
                /\ CallSchedules[n] = ScheduleConfig_from_labels(n, labels).sc
          /\ \A n \in DOMAIN D \ LabelDefined(labels) : CallSchedules[n] = D[n]

(* daily is overridden by labels, weekly has label keys but no cron key    *)
(* and stays the default                                                   *)
C7_Witness ==
    /\ call.fn = "from_labels"
    /\ defaults.some
    /\ {<<"daily">>, <<"weekly">>} \subseteq DOMAIN defaults.d
    /\ <<"daily">> \in LabelDefined(labels)
    /\ <<"weekly">> \in LabelReferenced(labels) \ LabelDefined(labels)
    /\ CallSchedules[<<"daily">>].cron # defaults.d[<<"daily">>].cron
    /\ CallSchedules[<<"weekly">>] = defaults.d[<<"weekly">>]

(***************************************************************************)
(* The well-formed integer strings: base-10 digits with an optional        *)
(* leading minus.                                                          *)
(***************************************************************************)
IsPlainIntString(s) ==
    /\ s # None
    /\ LET plain(c) ==
               /\ c # <<>>
               /\ \A k \in 1..Len(c) :
                     c[k] \in Digits \/ (k = 1 /\ c[k] = "-" /\ Len(c) > 1)
       IN plain(Chars(s))

RECURSIVE DecimalValue(_)
DecimalValue(ds) ==
    IF ds = <<>> THEN 0
    ELSE 10 * DecimalValue(SubSeq(ds, 1, Len(ds) - 1)) + DigitVal(ds[Len(ds)])

IntStringValue(s) ==
    LET value(c) ==
            LET magnitude == DecimalValue(SelectSeq(c, LAMBDA a : a \in Digits))
            IN IF "-" \in Range(c) THEN 0 - magnitude ELSE magnitude
    IN value(Chars(s))

(* C8: the retention of a schedule built from labels is the integer        *)
(* written in its retention label when that label is a well-formed         *)
(* integer (base-10 digits, optional leading minus), and 7 when the label  *)
(* is missing, empty or anything else.                                     *)
C8_RetentionFromLabel ==
    call.fn # "none" =>
       \A n \in LabelDefined(labels) :
          LET r == Get(labels, SchedKey(n, <<"retention">>), None)
          IN /\ IsPlainIntString(r) => CallSchedules[n].retention = IntStringValue(r)
             /\ ~IsPlainIntString(r) => CallSchedules[n].retention = 7

(* C9: every schedule of every configuration the compiler produces has a   *)
(* retention of at least 1.                                                *)
C9_RetentionPositive ==
    call.fn # "none" =>
       \A n \in DOMAIN CallSchedules : CallSchedules[n].retention >= 1

BuiltinNames == {<<"daily">>, <<"hourly">>, <<"weekly">>}

BuiltinExpected(n) ==
    CASE n = <<"daily">> -> [name |-> n, cron |-> <<"0 3 * * *">>, retention |-> 7]
      [] n = <<"hourly">> -> [name |-> n, cron |-> <<"0 * * * *">>, retention |-> 24]
      [] n = <<"weekly">> -> [name |-> n, cron |-> <<"0 4 * * 0">>, retention |-> 4]

BuiltinFallback ==
    /\ BuiltinNames \subseteq DOMAIN CallSchedules
    /\ \A n \in BuiltinNames \ LabelDefined(labels) : CallSchedules[n] = BuiltinExpected(n)

(* C10, as stated: whenever schedules are resolved with no caller defaults *)
(* supplied, the result holds daily (7), hourly (24) and weekly (4) with   *)
(* their fixed cron expressions, except where labels define the name.      *)
C10_BuiltinFallbackAlways ==
    (call.fn # "none" /\ ~defaults.some) => BuiltinFallback

(* C10, amended: a Discovery constructed with no default schedules         *)
(* resolves every container's schedules against the three built-in         *)
(* schedules; nothing else is added to the names the labels define.        *)
C10_BuiltinFallbackInDiscovery ==
    (call.fn = "_parse_container" /\ ~defaults.some) =>
       /\ BuiltinFallback
       /\ DOMAIN CallSchedules = BuiltinNames \cup LabelDefined(labels)

(* a Discovery without defaults compiled labels that redefine daily *)
C10_Witness ==
    /\ call.fn = "_parse_container"
    /\ ~defaults.some
    /\ <<"daily">> \in LabelDefined(labels)
    /\ CallSchedules[<<"daily">>].cron = <<"0 5 * * *">>
    /\ CallSchedules[<<"hourly">>] = BuiltinExpected(<<"hourly">>)
    /\ CallSchedules[<<"weekly">>] = BuiltinExpected(<<"weekly">>)

(***************************************************************************)
(* Targets.                                                                *)
(***************************************************************************)
(* every value of the mapping is a string *)
AllStrings(ls) == \A e \in Range(ls) : e.v # None

CallTargets == call.config.targets

Segments(k) == Split(k)

(* the positions whose key has the form backup.<type>.<instance>.<...>     *)
(* with a known type                                                       *)
TargetPositions(ls) ==
    {i \in 1..Len(ls) :
        /\ StartsWith(ls[i].k, <<"backup", ".">>)
        /\ Len(Segments(ls[i].k)) >= 4
        /\ Segments(ls[i].k)[2] \in
              {<<"postgres">>, <<"mariadb">>, <<"mysql">>, <<"mongo">>, <<"redis">>,
               <<"sqlite">>, <<"fs">>}}

PairAt(ls, i) == <<Segments(ls[i].k)[2], Segments(ls[i].k)[3]>>

(* the positions at which a pair occurs for the first time *)
FirstPositions(ls) ==
    {i \in TargetPositions(ls) :
        \A j \in TargetPositions(ls) : j < i => PairAt(ls, j) # PairAt(ls, i)}

(* the n-th smallest element of a set of positions *)
NthPosition(P, n) == CHOOSE i \in P : Cardinality({j \in P : j < i}) = n - 1

(* C11: on a mapping of strings the compiler raises nothing, and its       *)
(* target sequence is the sequence of the distinct (type, instance) pairs  *)
(* of the keys backup.<type>.<instance>.<...> with at least 4 segments and *)
(* a known type, in the order of their first occurrence; no pair occurs    *)
(* twice and every other key gives no target.                              *)
C11_TargetsAreDistinctPairsInOrder ==
    (call.fn # "none" /\ "args" \in DOMAIN call /\ AllStrings(labels)) =>
       /\ call.err = "none"
       /\ Len(CallTargets) = Cardinality(FirstPositions(labels))
       /\ \A n \in 1..Len(CallTargets) :
             <<CallTargets[n].type, CallTargets[n].instance>>
                = PairAt(labels, NthPosition(FirstPositions(labels), n))
       /\ \A m, n \in 1..Len(CallTargets) :
             m # n => <<CallTargets[m].type, CallTargets[m].instance>>
                         # <<CallTargets[n].type, CallTargets[n].instance>>

(* three target keys, two of them of one pair, were compiled into two      *)
(* targets                                                                 *)
C11_Witness ==
    /\ call.fn = "from_labels"
    /\ "args" \in DOMAIN call
    /\ AllStrings(labels)
    /\ Len(labels) = 3
    /\ Cardinality(TargetPositions(labels)) = 3
    /\ Len(CallTargets) = 2
    /\ CallTargets[1].type = <<"postgres">>
    /\ CallTargets[2].type = <<"fs">>

(* a compile of the target labels on a mapping of strings *)
TargetsCompiled == call.fn # "none" /\ "args" \in DOMAIN call /\ AllStrings(labels)

(* backup.<type>.<instance>. of a target *)
OwnPrefix(t) == <<"backup", ".">> \o t.type \o Dot \o t.instance \o Dot

(* the entries of the mapping under a target's own prefix *)
OwnLabels(ls, t) == {e \in Range(ls) : StartsWith(e.k, OwnPrefix(t))}

Remainder(e, t) == SubSeq(e.k, Len(OwnPrefix(t)) + 1, Len(e.k))

Reserved == {<<"schedule">>, <<"compress">>}

(* C12: the properties of every target hold exactly one entry per label    *)
(* under backup.<type>.<instance>. whose remainder is neither schedule nor *)
(* compress, keyed by the remainder, with the coerced value of the label;  *)
(* schedule and compress are never keys of properties.                     *)
C12_PropertiesAreOwnLabels ==
    TargetsCompiled =>
       \A n \in 1..Len(CallTargets) :
          LET t == CallTargets[n]
          IN /\ DOMAIN t.properties = {Remainder(e, t) : e \in OwnLabels(labels, t)} \ Reserved
             /\ \A e \in OwnLabels(labels, t) :
                   Remainder(e, t) \notin Reserved =>
                      t.properties[Remainder(e, t)] = _parse_label_value(e.v).val
             /\ Reserved \cap DOMAIN t.properties = {}

(* a target with a schedule label, a compress label and one property label *)
C12_Witness ==
    /\ TargetsCompiled
    /\ Len(CallTargets) = 1
    /\ {Remainder(e, CallTargets[1]) : e \in OwnLabels(labels, CallTargets[1])}
          = {<<"schedule">>, <<"compress">>, <<"path">>}
    /\ DOMAIN CallTargets[1].properties = {<<"path">>}
    /\ CallTargets[1].properties[<<"path">>] = StrV(<<"/", "data">>)

(* the keys whose entry an edit added, removed or changed *)
EditedKeys ==
    {k \in Keys(labels) \cup Keys(labels') :
        \/ HasKey(labels, k) # HasKey(labels', k)
        \/ Get(labels, k, None) # Get(labels', k, None)}

(* C13: every field of a target is fixed by the labels under its own       *)
(* backup.<type>.<instance>. prefix and the passed-in defaults: when a     *)
(* label outside that prefix is added, removed or changed and the mapping  *)
(* is compiled again, the result still holds this very target.             *)
C13_TargetsIndependent ==
    [][\A t \in Range(CallTargets) :
          (\A k \in EditedKeys : ~StartsWith(k, OwnPrefix(t))) =>
             t \in Range(call'.config.targets)]_vars

(* two targets, one with its own schedule and compress labels, the other   *)
(* on the defaults                                                         *)
C13_Witness ==
    /\ TargetsCompiled
    /\ Len(CallTargets) = 2
    /\ \E m, n \in 1..2 :
          /\ {<<"schedule">>, <<"compress">>}
                \subseteq {Remainder(e, CallTargets[m]) : e \in OwnLabels(labels, CallTargets[m])}
          /\ CallTargets[m].schedule = <<"hourly">>
          /\ CallTargets[m].compress # call.args.default_compress
          /\ CallTargets[n].schedule = call.args.default_schedule
          /\ CallTargets[n].compress = call.args.default_compress

(* C14: a target's compress is the boolean parser applied to its compress  *)
(* label whenever the label is present, so that an empty or unrecognized   *)
(* value gives false, and the default only when the label is absent; its   *)
(* schedule is the schedule label's value when present, else the default.  *)
C14_CompressAndScheduleFromLabel ==
    TargetsCompiled =>
       \A n \in 1..Len(CallTargets) :
          LET t == CallTargets[n]
              compress_key == OwnPrefix(t) \o <<"compress">>
              schedule_key == OwnPrefix(t) \o <<"schedule">>
          IN /\ HasKey(labels, compress_key) =>
                   t.compress = (Lower(Get(labels, compress_key, None)) \in TrueTokens)
             /\ ~HasKey(labels, compress_key) => t.compress = call.args.default_compress
             /\ HasKey(labels, schedule_key) => t.schedule = Get(labels, schedule_key, None)
             /\ ~HasKey(labels, schedule_key) => t.schedule = call.args.default_schedule

(* the keys of the mapping that name a target *)
TargetPairs(ls) == {PairAt(ls, i) : i \in TargetPositions(ls)}

(* C15: on a mapping of strings the assembler raises nothing; the labels   *)
(* that match nothing are left out while every target key still yields its *)
(* target and every cron label its schedule; enabled and stop are false    *)
(* when their labels are absent.                                           *)
C15_AssemblerNeverRaises ==
    TargetsCompiled =>
       /\ call.err = "none"
       /\ {<<CallTargets[n].type, CallTargets[n].instance>> : n \in 1..Len(CallTargets)}
             = TargetPairs(labels)
       /\ LabelDefined(labels) \subseteq DOMAIN CallSchedules
       /\ call.fn = "from_labels" => DOMAIN CallSchedules = LabelDefined(labels)
       /\ ~(\E e \in Range(labels) : e.k = <<"backup", ".", "enabled">>)
             => call.config.enabled = FALSE
       /\ ~(\E e \in Range(labels) : e.k = <<"backup", ".", "stop">>)
             => call.config.stop = FALSE

(* a key with an unknown type and a key with a reserved second segment     *)
(* were compiled next to a target key; no enabled and no stop label        *)
C15_Witness ==
    /\ TargetsCompiled
    /\ call.fn = "from_labels"
    /\ HasKey(labels, TargetKey(<<"unknown">>, <<"x">>, <<"y">>))
    /\ HasKey(labels, TargetKey(<<"enabled">>, <<"a">>, <<"b">>))
    /\ Len(CallTargets) = 1
    /\ call.err = "none"
    /\ ~call.config.enabled
    /\ ~call.config.stop

(* the name without its leading "/" characters *)
WithoutLeadingSeparator(name) ==
    CHOOSE r \in {SubSeq(name, i + 1, Len(name)) : i \in 0..Len(name)} :
       /\ \A j \in 1..(Len(name) - Len(r)) : name[j] = "/"
       /\ r = <<>> \/ r[1] # "/"

(* C16, as stated: the container_name of the record the assemble operation *)
(* returns is the name passed to it without its leading "/".               *)
C16_AssemblerStripsName ==
    (call.fn = "from_labels" /\ "args" \in DOMAIN call) =>
       call.config.container_name = WithoutLeadingSeparator(call.args.name)

(* C16, amended: the Discovery removes every leading "/" of a container's  *)
(* name before it assembles the configuration, a name without one is kept; *)
(* the assemble operation itself stores the name it is given.              *)
C16_DiscoveryStripsName ==
    /\ (call.fn = "_parse_container" /\ "args" \in DOMAIN call) =>
          call.config.container_name = WithoutLeadingSeparator(call.args.name)
    /\ (call.fn = "from_labels" /\ "args" \in DOMAIN call) =>
          call.config.container_name = call.args.name

(* the Discovery compiled a container named "//x" *)
C16_Witness ==
    /\ call.fn = "_parse_container"
    /\ "args" \in DOMAIN call
    /\ call.args.name = <<"/", "/", "x">>
    /\ call.config.container_name = <<"x">>

(***************************************************************************)
(* The value parsers.  The spellings are those the atoms can form.         *)
(***************************************************************************)
TrueSpellings == {"true", "TRUE", "tRuE", "yes", "YES", "Yes", "on", "On"}

FalseSpellings == {"false", "FALSE", "False", "no", "No", "off", "OFF"}

(* C17: on a string the value coercer applies its rules in order, first    *)
(* match wins: an integer exactly when the string is decimal digits with an  *)
(* optional leading "-"; otherwise true for true/yes/on and false for      *)
(* false/no/off in any case; otherwise the string itself.                  *)
C17_CoercionRules ==
    (call.fn = "_parse_label_value" /\ call.args.value # None) =>
       call.config =
          IF IsPlainIntString(call.args.value)
          THEN IntV(IntStringValue(call.args.value))
          ELSE IF Flat(call.args.value) \in TrueSpellings THEN BoolV(TRUE)
          ELSE IF Flat(call.args.value) \in FalseSpellings THEN BoolV(FALSE)
          ELSE StrV(call.args.value)

(* C18: the boolean parser returns true exactly for the spellings of true, *)
(* 1, yes and on in any case, false for None, the empty string and every   *)
(* other string, and raises nothing.                                       *)
C18_ParseBool ==
    call.fn = "_parse_bool" =>
       /\ call.err = "none"
       /\ call.config = BoolV(Flat(call.args.value) \in TrueSpellings \cup {"1"})
       /\ call.args.value \in {None, <<>>} => call.config.b = FALSE

(* a capitalised spelling of yes was parsed to true *)
C18_Witness ==
    /\ call.fn = "_parse_bool"
    /\ call.args.value = <<"Yes">>
    /\ call.config.b = TRUE

(* the dict that a sequence of entries stands for *)
DictOf(entries) == [k \in Keys(entries) |-> Get(entries, k, None)]

(* C19: two runs of the compiler on one label snapshot with the same       *)
(* defaults yield structurally identical configurations: the same enabled  *)
(* and stop flags, the same schedule map, and the same target sequence     *)
(* with the same schedule, compress and properties.                        *)
C19_RunsAgree ==
    call.fn = "twice" =>
       /\ call.config.first.enabled = call.config.second.enabled
       /\ call.config.first.stop = call.config.second.stop
       /\ DictOf(call.config.first.schedules) = DictOf(call.config.second.schedules)
       /\ call.config.first.targets = call.config.second.targets
       /\ call.config.first.err = "none" /\ call.config.second.err = "none"

(* the two runs visited the schedule names in different orders and filled  *)
(* their schedule dicts in different orders; the labels hold a target      *)
C19_Witness ==
    /\ call.fn = "twice"
    /\ call.args.first # call.args.second
    /\ call.config.first.schedules # call.config.second.schedules
    /\ Len(call.config.first.schedules) >= 2
    /\ call.config.first.targets # <<>>

(* what the caller of a pass observes *)
Outcome(o) == [raised |-> o.raised, returned |-> o.returned, result |-> o.result]

(* the configurations of the containers cs, one by one, for a Discovery    *)
(* with the default settings of the current state and no client yet        *)
ParsedAlone(cs) ==
    [i \in DOMAIN cs |->
        _parse_container([Self EXCEPT !._client = "None"], cs[i])]

(* the outcome that the registry of the current state determines for a     *)
(* pass: no answer from a daemon that is down; for a lookup, nothing for   *)
(* an unknown id and otherwise the container's own configuration when it   *)
(* is enabled; for a listing, the enabled configurations of the listed     *)
(* containers that parse, in listing order                                 *)
SnapshotOutcome(name, arg, mode) ==
    IF daemon = "down"
    THEN [raised |-> "DockerConnectionError", returned |-> FALSE, result |-> <<>>]
    ELSE IF name = "get_container_config"
    THEN LET got == ParsedAlone(RegistryGet(containers, arg))
         IN IF got = <<>> THEN [raised |-> "none", returned |-> TRUE, result |-> <<>>]
            ELSE IF got[1].err # "none"
                 THEN [raised |-> got[1].err, returned |-> FALSE, result |-> <<>>]
            ELSE [raised |-> "none", returned |-> TRUE,
                  result |-> SelectSeq(got, LAMBDA c : c.enabled)]
    ELSE [raised |-> "none", returned |-> TRUE,
          result |-> SelectSeq(ParsedAlone(RegistryList(containers, ListQuery.key,
                                                        ListQuery.value, mode)),
                               LAMBDA c : c.err = "none" /\ c.enabled)]

(* C20: each discovery pass is stateless: a call of                        *)
(* find_enabled_containers(), refresh() or get_container_config() leaves   *)
(* the Discovery's default schedule set, default target schedule and       *)
(* default compress unchanged, only reads the registry, and its result     *)
(* depends only on the registry at that pass, not on earlier passes.       *)
C20_PassesAreStateless ==
    [][op'.name # "none" =>
          /\ _default_schedules' = _default_schedules
          /\ _default_target_schedule' = _default_target_schedule
          /\ _default_target_compress' = _default_target_compress
          /\ containers' = containers
          /\ daemon' = daemon
          /\ op'.registry = containers
          /\ Outcome(op') = SnapshotOutcome(op'.name, op'.arg, op'.mode)]_vars

(* a pass by a Discovery that was created without a client and holds the   *)
(* client an earlier pass made: the listing itself is what the daemon      *)
(* refuses, with containers in the registry                                *)
C20_Witness ==
    /\ op.name \in {"find_enabled_containers", "refresh"}
    /\ op.fault = "list"
    /\ _client = "from_env"
    /\ containers # <<>>

(* C21: labels whose key does not start with "backup." never influence the *)
(* result: for two label maps of a workload that agree on all labels with  *)
(* the prefix, the listing and the lookup produce identical                *)
(* configurations.                                                         *)
C21_OtherLabelsIgnored ==
    call.fn = "discover" => call.config.first = call.config.second

(* an enabled workload with a target is discovered under two maps that     *)
(* differ, the first of which holds a label of another prefix              *)
C21_Witness ==
    /\ call.fn = "discover"
    /\ call.args.other # labels
    /\ \E i \in DOMAIN labels : labels[i] \in OtherLabelPool
    /\ Len(call.config.first.found.configs) = 1
    /\ call.config.first.found.configs[1].targets # <<>>
    /\ call.config.first.got.configs # <<>>

(* the entries under defaults.schedules of a configuration whose defaults  *)
(* and schedules are mappings or missing                                   *)
HasScheduleMapping(config) ==
    /\ config.defaults.kind \in {"absent", "dict"}
    /\ GetOrEmpty(config.defaults, "schedules").kind = "dict"

ScheduleEntries(config) == GetOrEmpty(config.defaults, "schedules").d

(* a mapping that contains cron *)
ValidEntry(e) == e.v.kind = "dict" /\ \E i \in DOMAIN e.v.d : e.v.d[i].k = "cron"

ValidNames(config) ==
    {ScheduleEntries(config)[i].k :
        i \in {j \in DOMAIN ScheduleEntries(config) : ValidEntry(ScheduleEntries(config)[j])}}

Item(d, key) == d[CHOOSE i \in DOMAIN d : d[i].k = key].v

(* C22: loading default schedules from the controller configuration is     *)
(* non-fatal for malformed entries: every entry under defaults.schedules   *)
(* that is a mapping containing cron yields a ScheduleConfig with that     *)
(* name and cron and with the entry's retention, or 7 when it is missing;  *)
(* every entry that is no mapping or lacks cron is skipped without         *)
(* raising and does not keep the other entries from loading.               *)
C22_MalformedEntriesSkipped ==
    (call.fn = "load_default_schedules_from_config" /\ HasScheduleMapping(call.args.config)) =>
       /\ call.err = "none"
       /\ DOMAIN call.config.schedules = ValidNames(call.args.config)
       /\ \A i \in DOMAIN ScheduleEntries(call.args.config) :
             LET e == ScheduleEntries(call.args.config)[i]
             IN ValidEntry(e) =>
                   /\ call.config.schedules[e.k].name = e.k
                   /\ call.config.schedules[e.k].cron = Untag(Item(e.v.d, "cron"))
                   /\ call.config.schedules[e.k].retention =
                         (IF \E j \in DOMAIN e.v.d : e.v.d[j].k = "retention"
                          THEN Untag(Item(e.v.d, "retention")) ELSE 7)

(* a string that contains "cron" comes first and a mapping with cron and   *)
(* no retention second: the second alone is loaded, with retention 7       *)
C22_Witness ==
    /\ call.fn = "load_default_schedules_from_config"
    /\ HasScheduleMapping(call.args.config)
    /\ Len(ScheduleEntries(call.args.config)) = 2
    /\ ScheduleEntries(call.args.config)[1].v = StrValue(<<"cron", " ", "daily">>)
    /\ ValidEntry(ScheduleEntries(call.args.config)[2])
    /\ call.err = "none"
    /\ \E n \in DOMAIN call.config.schedules : call.config.schedules[n].retention = 7

(* the seven target types *)
SevenTypes ==
    {<<"postgres">>, <<"mariadb">>, <<"mysql">>, <<"mongo">>, <<"redis">>, <<"sqlite">>, <<"fs">>}

(* C23: every TargetConfig that exists has a type in the fixed set of      *)
(* postgres, mariadb, mysql, mongo, redis, sqlite and fs: constructing one *)
(* with any other type fails with an error, constructing one with each of  *)
(* the seven succeeds, and every target of an assembled configuration has  *)
(* a type from the set.                                                    *)
C23_TargetTypeInFixedSet ==
    /\ call.fn \in {"TargetConfig", "TargetConfig.from_labels"} =>
          /\ call.args.type \in SevenTypes => (call.err = "none" /\ call.config.type = call.args.type)
          /\ call.args.type \notin SevenTypes => call.err = "ValueError"
    /\ (call.fn = "from_labels" /\ call.err = "none") =>
          \A i \in DOMAIN call.config.targets : call.config.targets[i].type \in SevenTypes

(* the constructor was called with the type "FS" and raised *)
C23_Witness ==
    /\ call.fn = "TargetConfig"
    /\ call.args.type = <<"FS">>
    /\ call.err = "ValueError"

(* the access of the client property in a pass raised *)
ConnectFaults == {"from_env", "ping"}

(* C24: a lazily created registry client is only handed out after          *)
(* verification: for a Discovery constructed without a client, an access   *)
(* of the client property returns a client only if the connection check    *)
(* (ping) succeeded on it, and after an access that failed with            *)
(* DockerConnectionError the next access connects and verifies again       *)
(* instead of returning the unverified client.  On a step that is a pass:  *)
(* with no client held, a client is handed out only with the daemon        *)
(* answering; and when the pass before failed in the access (the registry  *)
(* has not changed since), the access of this pass fails again.            *)
C24_ClientVerifiedBeforeUse ==
    [][op'.name # "none" =>
          /\ (_client = "None" /\ op'.fault \notin ConnectFaults) => daemon = "up"
          /\ op.fault \in ConnectFaults => op'.fault \in ConnectFaults]_vars

(* the Discovery of the state holds the built-in schedules *)
HoldsBuiltin ==
    /\ DOMAIN _default_schedules = BuiltinNames
    /\ _default_schedules[<<"daily">>] = ScheduleConfig(<<"daily">>, <<"0 3 * * *">>, 7)
    /\ _default_schedules[<<"hourly">>] = ScheduleConfig(<<"hourly">>, <<"0 * * * *">>, 24)
    /\ _default_schedules[<<"weekly">>] = ScheduleConfig(<<"weekly">>, <<"0 4 * * 0">>, 4)

(* the Discovery of the state was made from a configuration, or from the   *)
(* caller's schedule set                                                   *)
MadeFromConfig == call.fn # "none" /\ "config" \in DOMAIN call.args /\ call.err = "none"
                  /\ call.fn # "load_default_schedules_from_config"

MadeFromSet == call.fn # "none" /\ "default_schedules" \in DOMAIN call.args /\ call.err = "none"

(* C25: a Discovery's effective default schedule set is never empty: it is *)
(* the caller-supplied set when that set is non-empty, and exactly the     *)
(* three built-in schedules (daily, hourly, weekly) both when no set is    *)
(* supplied and when the caller supplies an empty set, as                  *)
(* create_discovery_from_config does for a configuration without valid     *)
(* defaults.schedules entries; hence every configuration it returns has at *)
(* least one schedule.                                                     *)
C25_DefaultSchedulesNeverEmpty ==
    /\ MadeFromSet =>
          /\ DOMAIN _default_schedules # {}
          /\ IF call.args.default_schedules.some /\ DOMAIN call.args.default_schedules.d # {}
             THEN _default_schedules = call.args.default_schedules.d
             ELSE HoldsBuiltin
    /\ MadeFromConfig =>
          /\ DOMAIN _default_schedules # {}
          /\ IF ValidNames(call.args.config) # {}
             THEN DOMAIN _default_schedules = ValidNames(call.args.config)
             ELSE HoldsBuiltin
    /\ (call.fn = "_parse_container" /\ call.err = "none") =>
          DOMAIN call.config.schedules # {}

(* a Discovery made from a configuration whose schedule entries are all    *)
(* malformed holds the built-in schedules and has parsed a container       *)
C25_Witness ==
    /\ call.fn = "_parse_container"
    /\ call.err = "none"
    /\ "config" \in DOMAIN call.args
    /\ ScheduleEntries(call.args.config) # <<>>
    /\ ValidNames(call.args.config) = {}
    /\ HoldsBuiltin
    /\ BuiltinNames \subseteq DOMAIN call.config.schedules

====
